---- MODULE Spec2Model ----
(***************************************************************************)
(* Iron-condor backtester: the strategy state machine                      *)
(* (strategies/iron_condor.rs), the position and market data model         *)
(* (models/*.rs), the execution loop (backtest/runner.rs) and the metrics  *)
(* engine (backtest/metrics.rs).                                           *)
(*                                                                         *)
(* Conventions.  Money is an integer number of 1e-4 dollars (Unit per      *)
(* dollar); strikes and underlying prices are whole dollars, so a strike   *)
(* and its u32 map key coincide.  Time is an integer number of ticks,      *)
(* TicksPerDay ticks per day.  Option<T> is <<>> (None) or <<x>>           *)
(* (Some(x)).  Floating-point rounding is not modelled: every f64          *)
(* quantity of the model is an exact integer or an exact fraction.         *)
(***************************************************************************)
EXTENDS Integers, Sequences, FiniteSets, TLC

VARIABLES
    \* IronCondorSignalGenerator (iron_condor.rs:86-89)
    config,            \* IronCondorConfig
    active_positions,  \* state.active_positions: id -> IronCondorPosition
    current_price,     \* state.current_price
    last_signal,       \* state.last_signal: Option<DateTime>
    next_id,           \* the next fresh Uuid::new_v4()
    \* the most recent call of generate_signal_with_options_chain
    signal,            \* its return value (Option<IronCondorSignal>)
    call_time,         \* the timestamp of the chain it was given (Option)
    buildable,         \* whether that chain yields a net-credit condor whatever
                       \* the iteration order of its strike maps
    \* the most recent direct call of find_closest_strike (Option): the strikes
    \* of the side searched, the target, the option type and the value returned
    probe,
    \* BacktestRunner::run (runner.rs:168-302)
    pc,                \* "idle" | "running" | "done"
    bt_config,         \* BacktestConfig
    events,            \* market_generator.events[..current_idx]: the snapshots
                       \* consumed so far (the stream is drawn as it is consumed)
    stream,            \* market_generator.events where a specification fixes
                       \* the whole stream in advance (<<>> where it does not)
    current_capital,   \* local current_capital
    active_trades,     \* local active_trades: id -> Trade
    trades,            \* local trades: the final ledger
    equity_curve,      \* local equity_curve: timestamp -> capital
    \* BacktestMetrics (metrics.rs:5-36) and the arguments of calculate
    metrics,           \* the metrics record
    calc_calls         \* number of calculate calls made on that record

strategy_vars ==
    <<config, active_positions, current_price, last_signal, next_id,
      signal, call_time, buildable, probe>>
runner_vars ==
    <<pc, bt_config, events, stream, current_capital, active_trades, trades, equity_curve>>
metrics_vars == <<metrics, calc_calls>>
vars == <<strategy_vars, runner_vars, metrics_vars>>

----------------------------------------------------------------------------
(* Units and bounds *)

\* 1 dollar in money units (1e-4 dollar each)
Unit == 100 * 100
\* ticks per day: half-day resolution, so num_days() truncates
TicksPerDay == 2
\* at most MaxPositions positions are ever constructed (fresh ids 1..MaxPositions)
MaxPositions == 2
\* ledgers handed to the metrics engine hold at most MaxTrades trades
MaxTrades == 3
\* calculate is called at most MaxCalcCalls times on one metrics record
MaxCalcCalls == 2
\* a backtest processes at most MaxEvents market events
MaxEvents == 3
\* snapshots per run when the run is there to fill the ledger
MaxLedgerEvents == 4

None == <<>>
Some(x) == <<x>>
IsSome(o) == o # <<>>
Unwrap(o) == o[1]

Abs(x) == IF x < 0 THEN -x ELSE x
Max(a, b) == IF a >= b THEN a ELSE b

\* chrono::Duration::days(n)
Days(n) == n * TicksPerDay
\* chrono::Duration::num_days(): whole days, truncated toward zero
NumDays(d) == IF d >= 0 THEN d \div TicksPerDay ELSE -((-d) \div TicksPerDay)

----------------------------------------------------------------------------
(* models/options_data.rs *)

\* OptionsContract::new: the synthetic quote of a contract
SyntheticContract(option_type, strike, expiration, underlying_price, current_time) ==
    LET intrinsic == IF option_type = "Call"
                     THEN Max(underlying_price - strike, 0) * Unit
                     ELSE Max(strike - underlying_price, 0) * Unit
        distance_from_money == Abs(strike - underlying_price)
        time_value == IF expiration > current_time
                      THEN Max(3 * Unit - distance_from_money * (Unit \div 10), Unit \div 2)
                      ELSE Unit \div 2
        price == Max(intrinsic + time_value, Unit \div 100)
        spread == Max((price * 3) \div 100, Unit \div 100)
        bid == Max(price - spread \div 2, Unit \div 100)
        ask == price + spread \div 2
    IN [option_type |-> option_type, strike |-> strike, expiration |-> expiration,
        bid |-> bid, ask |-> ask]

\* OptionsChain::get_call / get_put: lookup under the key `strike as u32`
\* (a saturating cast: a negative strike becomes key 0)
AsU32(strike) == IF strike < 0 THEN 0 ELSE strike
get_call(c, strike) ==
    IF AsU32(strike) \in DOMAIN c.calls THEN Some(c.calls[AsU32(strike)]) ELSE None
get_put(c, strike) ==
    IF AsU32(strike) \in DOMAIN c.puts THEN Some(c.puts[AsU32(strike)]) ELSE None

----------------------------------------------------------------------------
(* models/iron_condor_position.rs *)

\* the entry premium of IronCondorPosition::new
EntryPremium(short_call, long_call, short_put, long_put, quantity) ==
    (short_call.bid + short_put.bid - long_call.ask - long_put.ask) * quantity

\* IronCondorPosition::new
NewPosition(id, short_call, long_call, short_put, long_put, quantity, entry_time) ==
    [id |-> id, entry_time |-> entry_time, exit_time |-> None,
     short_call |-> short_call, long_call |-> long_call,
     short_put |-> short_put, long_put |-> long_put,
     quantity |-> quantity,
     entry_premium |-> EntryPremium(short_call, long_call, short_put, long_put, quantity),
     exit_premium |-> None]

\* OptionsContract::strike in 1e-4 dollars.  The field `strike` of a contract
\* is the whole-dollar part of its f64 strike, which is what `strike as u32`
\* keeps; a contract whose strike is not a whole number of dollars carries the
\* rest in the field `strike_frac`.
StrikeOf(contract) ==
    contract.strike * Unit
        + (IF "strike_frac" \in DOMAIN contract THEN contract.strike_frac ELSE 0)

\* spread widths, in 1e-4 dollars
call_spread_width(p) == StrikeOf(p.long_call) - StrikeOf(p.short_call)
put_spread_width(p) == StrikeOf(p.short_put) - StrikeOf(p.long_put)
max_profit(p) == p.entry_premium
max_loss(p) ==
    Max(call_spread_width(p) * p.quantity, put_spread_width(p) * p.quantity)
        - p.entry_premium

\* IronCondorPosition::calculate_unrealized_pnl
calculate_unrealized_pnl(p, price) ==
    LET call_spread_pnl ==
            IF price * Unit >= StrikeOf(p.long_call) THEN -(call_spread_width(p) * p.quantity)
            ELSE IF price * Unit <= StrikeOf(p.short_call) THEN 0
            ELSE -((price * Unit - StrikeOf(p.short_call)) * p.quantity)
        put_spread_pnl ==
            IF price * Unit <= StrikeOf(p.long_put) THEN -(put_spread_width(p) * p.quantity)
            ELSE IF price * Unit >= StrikeOf(p.short_put) THEN 0
            ELSE -((StrikeOf(p.short_put) - price * Unit) * p.quantity)
    IN p.entry_premium + call_spread_pnl + put_spread_pnl

\* IronCondorPosition::calculate_pnl
calculate_pnl(p, price) ==
    IF IsSome(p.exit_premium) THEN p.entry_premium - Unwrap(p.exit_premium)
    ELSE calculate_unrealized_pnl(p, price)

\* IronCondorPosition::profit_percentage, as the exact fraction <<num, den>>, den > 0
profit_percentage(p, price) ==
    IF max_profit(p) > 0 THEN <<calculate_pnl(p, price) * 100, max_profit(p)>>
    ELSE <<0, 1>>

\* IronCondorPosition::days_to_expiration
days_to_expiration(p, current_time) == NumDays(p.short_call.expiration - current_time)

----------------------------------------------------------------------------
(* strategies/iron_condor.rs *)

\* the strike keys of one side of the chain
StrikeKeys(c, option_type) ==
    IF option_type = "Call" THEN DOMAIN c.calls ELSE DOMAIN c.puts

\* the keys at minimal absolute distance from the target (the closure of min_by)
ClosestStrikes(c, target_strike, option_type) ==
    {k \in StrikeKeys(c, option_type) :
        \A j \in StrikeKeys(c, option_type) :
            Abs(k - target_strike) <= Abs(j - target_strike)}

\* a search that only looks at strikes at or above the target
find_closest_strike_above(c, target_strike, option_type) ==
    LET above == {k \in StrikeKeys(c, option_type) : k >= target_strike}
    IN IF above = {} THEN {None}
       ELSE {Some(k) : k \in {a \in above : \A j \in above : a <= j}}

\* find_closest_strike: min_by keeps the first minimum in the HashMap's
\* iteration order, which is unspecified: any key at minimal distance can be
\* returned.  The result is the set of possible return values.
find_closest_strike(c, target_strike, option_type) ==
    IF StrikeKeys(c, option_type) = {} THEN {None}
    ELSE {Some(k) : k \in ClosestStrikes(c, target_strike, option_type)}

\* f64::round of price * 1.05 and price * 0.95 for a whole-dollar price >= 0
target_short_call_strike(underlying_price) == (underlying_price * 105 + 50) \div 100
target_short_put_strike(underlying_price) == (underlying_price * 95 + 50) \div 100

\* $10 wide spreads
protection_width == 10
\* "Fallback to smaller width" of unwrap_or
fallback_width == 5

\* a protection strike taken at its target without a search of the chain
long_strikes_at_target(c, option_type, short_target, short_strike, long_target, fallback) ==
    {long_target}

\* The protection strike of one side, given the short strike found on it: the
\* possible values of find_closest_strike(..).unwrap_or(fallback).  Both searches
\* iterate the same unmodified map, so when they tie on the same candidates they
\* return the same key.
long_strikes(c, option_type, short_target, short_strike, long_target, fallback) ==
    LET found == find_closest_strike(c, long_target, option_type)
    IN IF None \in found THEN {fallback}
       ELSE {Unwrap(f) : f \in
               {g \in found :
                   ClosestStrikes(c, long_target, option_type)
                       = ClosestStrikes(c, short_target, option_type)
                   => Unwrap(g) = short_strike}}

\* a credit test that lets a premium of exactly zero through
net_credit_or_even(position) == position.entry_premium >= 0
\* "Only create position if we receive a net credit"
net_credit(position) == position.entry_premium > 0

\* create_iron_condor_position from the contract lookup on: Option<position>
construct_position(c, id, sc_strike, long_call_strike, sp_strike, long_put_strike) ==
    LET short_call == get_call(c, sc_strike)
        long_call == get_call(c, long_call_strike)
        short_put == get_put(c, sp_strike)
        long_put == get_put(c, long_put_strike)
    IN IF IsSome(short_call) /\ IsSome(long_call) /\ IsSome(short_put) /\ IsSome(long_put)
       THEN LET position == NewPosition(id, Unwrap(short_call), Unwrap(long_call),
                                        Unwrap(short_put), Unwrap(long_put), 1, c.timestamp)
            IN IF net_credit(position) THEN Some(position) ELSE None
       ELSE None

\* create_iron_condor_position: the set of possible results (Option<position>)
create_iron_condor_position(c, id) ==
    LET tsc == target_short_call_strike(c.underlying_price)
        tsp == target_short_put_strike(c.underlying_price)
        short_call_strike == find_closest_strike(c, tsc, "Call")
        short_put_strike == find_closest_strike(c, tsp, "Put")
    IN IF None \in short_call_strike \/ None \in short_put_strike THEN {None}
       ELSE UNION {UNION {
              {construct_position(c, id, Unwrap(sc), lc, Unwrap(sp), lp) :
                 lc \in long_strikes(c, "Call", tsc, Unwrap(sc),
                                     Unwrap(sc) + protection_width, Unwrap(sc) + fallback_width),
                 lp \in long_strikes(c, "Put", tsp, Unwrap(sp),
                                     Unwrap(sp) - protection_width, Unwrap(sp) - fallback_width)}
              : sp \in short_put_strike} : sc \in short_call_strike}

\* the re-entry gate in days: 7 in zero-DTE mode, 1 otherwise
zero_dte_gate_days == 7
regular_gate_days == 1
entry_gate(cfg) == IF cfg.zero_dte THEN Days(zero_dte_gate_days) ELSE Days(regular_gate_days)

\* no_recent_signal with the comparison slipped to >=
no_recent_signal_inclusive(cfg, last, current_time) ==
    IF IsSome(last) THEN current_time - Unwrap(last) >= entry_gate(cfg) ELSE TRUE

\* no_recent_signal
no_recent_signal(cfg, last, current_time) ==
    IF IsSome(last) THEN current_time - Unwrap(last) > entry_gate(cfg) ELSE TRUE

\* should_enter with `||` in place of `&&`
should_enter_either(cfg, positions, last, current_time) ==
    (DOMAIN positions = {}) \/ no_recent_signal(cfg, last, current_time)

\* should_enter without the no_active_positions conjunct
should_enter_ignoring_registry(cfg, positions, last, current_time) ==
    no_recent_signal(cfg, last, current_time)

\* should_enter
should_enter(cfg, positions, last, current_time) ==
    (DOMAIN positions = {}) /\ no_recent_signal(cfg, last, current_time)

\* a profit target that must be exceeded
profit_target_reached_strict(cfg, p, price) ==
    LET pct == profit_percentage(p, price) IN pct[1] > cfg.profit_target_pct * pct[2]
\* the exit triggers of one position
profit_target_reached(cfg, p, price) ==
    LET pct == profit_percentage(p, price) IN pct[1] >= cfg.profit_target_pct * pct[2]
stop_loss_reached(cfg, p, price) ==
    LET pct == profit_percentage(p, price) IN pct[1] <= -cfg.stop_loss_pct * pct[2]
time_exit_days == 1
\* a time exit after the seven days of the zero-DTE entry gate
time_exit_after_a_week(last, current_time) ==
    IF IsSome(last) THEN current_time - Unwrap(last) > Days(zero_dte_gate_days) ELSE FALSE
time_exit(last, current_time) ==
    IF IsSome(last) THEN current_time - Unwrap(last) > Days(time_exit_days) ELSE FALSE
dte_exit(cfg, p, current_time) == days_to_expiration(p, current_time) <= cfg.exit_dte

should_exit(cfg, p, last, price, current_time) ==
    \/ profit_target_reached(cfg, p, price)
    \/ stop_loss_reached(cfg, p, price)
    \/ time_exit(last, current_time)
    \/ dte_exit(cfg, p, current_time)

\* a reason that looks at the time exit before the DTE exit
exit_reason_time_first(cfg, p, last, price, current_time) ==
    IF profit_target_reached(cfg, p, price) THEN "profit target"
    ELSE IF stop_loss_reached(cfg, p, price) THEN "stop loss"
    ELSE IF time_exit(last, current_time) THEN "time exit"
    ELSE "DTE exit"

\* the reason reported: the first trigger that holds
exit_reason(cfg, p, last, price, current_time) ==
    IF profit_target_reached(cfg, p, price) THEN "profit target"
    ELSE IF stop_loss_reached(cfg, p, price) THEN "stop loss"
    ELSE IF dte_exit(cfg, p, current_time) THEN "DTE exit"
    ELSE "time exit"

\* an exit premium with the sign of a credit: what closing pays
exit_premium_of_as_credit(p) ==
    (p.long_call.bid + p.long_put.bid - p.short_call.ask - p.short_put.ask) * p.quantity

\* "Calculate exit premium": from the contracts held in the position
exit_premium_of(p) ==
    (p.short_call.ask + p.short_put.ask - p.long_call.bid - p.long_put.bid) * p.quantity

\* positions_to_exit, as a set: its first element is any of them
positions_to_exit(cfg, positions, last, c) ==
    {[position_id |-> id,
      exit_premium |-> exit_premium_of(positions[id]),
      reason |-> exit_reason(cfg, positions[id], last, c.underlying_price, c.timestamp)] :
        id \in {i \in DOMAIN positions :
                  should_exit(cfg, positions[i], last, c.underlying_price, c.timestamp)}}

\* a removal that clears the whole map
RemoveAll(f, k) == <<>>
\* a removal that removes nothing
RemoveNothing(f, k) == f
Remove(f, k) == [x \in DOMAIN f \ {k} |-> f[x]]
\* an insertion that keeps the value of a key already present
InsertIfAbsent(f, k, v) == [x \in DOMAIN f \cup {k} |-> IF x \in DOMAIN f THEN f[x] ELSE v]
\* HashMap::insert: the value of an existing key is replaced
Insert(f, k, v) == [x \in DOMAIN f \cup {k} |-> IF x = k THEN v ELSE f[x]]

\* a call without signal that stamps the attempt as the last signal
no_signal_stamped(positions, last, id, current_time) ==
    [active_positions |-> positions, last_signal |-> Some(current_time),
     next_id |-> id, signal |-> None]
\* the call falls through to the final `None`: no signal, state as it was
no_signal(positions, last, id, current_time) ==
    [active_positions |-> positions, last_signal |-> last, next_id |-> id, signal |-> None]

\* an exit that stamps its time as the last signal
exit_signal_stamped(positions, last, id, x, current_time) ==
    [active_positions |-> Remove(positions, x.position_id),
     last_signal |-> Some(current_time),
     next_id |-> id,
     signal |-> Some([type |-> "Exit", position_id |-> x.position_id,
                      exit_premium |-> x.exit_premium,
                      timestamp |-> current_time, reason |-> x.reason])]
\* the first of positions_to_exit is removed from the registry and returned as
\* the Exit signal
exit_signal(positions, last, id, x, current_time) ==
    [active_positions |-> Remove(positions, x.position_id),
     last_signal |-> last,
     next_id |-> id,
     signal |-> Some([type |-> "Exit", position_id |-> x.position_id,
                      exit_premium |-> x.exit_premium,
                      timestamp |-> current_time, reason |-> x.reason])]

\* generate_signal_with_options_chain: the possible outcomes of one call, each
\* the strategy state it leaves and the signal it returns
generate_signal_with_options_chain(cfg, positions, last, id, c) ==
    LET current_time == c.timestamp
        created == IF should_enter(cfg, positions, last, current_time)
                   THEN create_iron_condor_position(c, id) ELSE {None}
        entered == {[active_positions |-> Insert(positions, Unwrap(p).id, Unwrap(p)),
                     last_signal |-> Some(current_time),
                     next_id |-> id + 1,
                     signal |-> Some([type |-> "Enter", position |-> Unwrap(p),
                                      timestamp |-> current_time])] :
                       p \in created \ {None}}
        exits == positions_to_exit(cfg, positions, last, c)
        exited == {exit_signal(positions, last, id, x, current_time) : x \in exits}
        nothing == {no_signal(positions, last, id, current_time)}
    IN entered \cup
       (IF None \in created THEN (IF exits # {} THEN exited ELSE nothing) ELSE {})

----------------------------------------------------------------------------
(* backtest/metrics.rs *)

RECURSIVE Gcd(_, _)
Gcd(a, b) == IF b = 0 THEN a ELSE Gcd(b, a % b)

Sign(n) == IF n > 0 THEN 1 ELSE IF n < 0 THEN -1 ELSE 0

\* The f64 quotient n / d as the exact fraction <<num, den>> in lowest terms
\* with den > 0; a division by zero is <<1, 0>> (+infinity), <<-1, 0>>
\* (-infinity) or <<0, 0>> (NaN).
Frac(n, d) ==
    IF d = 0 THEN <<Sign(n), 0>>
    ELSE LET g == Gcd(Abs(n), Abs(d))
         IN <<(Sign(d) * n) \div g, Abs(d) \div g>>
Zero == <<0, 1>>
Infinity == <<1, 0>>
RECURSIVE FracGT(_, _)
\* a > b for non-negative finite fractions, compared by whole parts and then
\* by the reciprocals of the remainders (no product is formed)
FracGT(a, b) ==
    LET qa == a[1] \div a[2]
        qb == b[1] \div b[2]
        ra == a[1] % a[2]
        rb == b[1] % b[2]
    IN IF qa # qb THEN qa > qb
       ELSE IF ra = 0 THEN FALSE
       ELSE IF rb = 0 THEN TRUE
       ELSE FracGT(<<b[2], rb>>, <<a[2], ra>>)

NaN == <<0, 0>>
\* f64 addition, multiplication and reciprocal on these fractions: a sum of
\* opposite infinities and a product of zero and infinity are NaN, and NaN
\* propagates
FracAdd(a, b) ==
    IF a[2] = 0 \/ b[2] = 0
    THEN IF a = NaN \/ b = NaN THEN NaN
         ELSE IF a[2] = 0 /\ b[2] = 0 THEN (IF a = b THEN a ELSE NaN)
         ELSE IF a[2] = 0 THEN a ELSE b
    ELSE LET g == Gcd(a[2], b[2])
         IN Frac(a[1] * (b[2] \div g) + b[1] * (a[2] \div g), (a[2] \div g) * b[2])
FracMul(a, b) ==
    IF a[2] = 0 \/ b[2] = 0 THEN <<Sign(a[1]) * Sign(b[1]), 0>>
    ELSE LET g1 == Gcd(Abs(a[1]), b[2])
             g2 == Gcd(Abs(b[1]), a[2])
         IN Frac((a[1] \div g1) * (b[1] \div g2), (a[2] \div g2) * (b[2] \div g1))
FracRecip(a) ==
    IF a[1] = 0 THEN (IF a[2] = 0 THEN NaN ELSE Infinity)
    ELSE IF a[1] > 0 THEN <<a[2], a[1]>> ELSE <<-a[2], -a[1]>>
FracAbs(a) == <<Abs(a[1]), a[2]>>
RECURSIVE FracSum(_)
\* iter().sum() of a sequence of fractions
FracSum(q) == IF q = <<>> THEN Zero ELSE FracAdd(FracSum(SubSeq(q, 1, Len(q) - 1)), q[Len(q)])
\* the mean of a non-empty sequence of fractions
FracMean(q) == FracMul(FracSum(q), <<1, Len(q)>>)

\* BacktestMetrics::new
NewMetrics(initial_capital) ==
    [initial_capital |-> initial_capital,
     final_capital |-> initial_capital,
     total_return_pct |-> Zero,
     max_drawdown_pct |-> Zero,
     total_trades |-> 0,
     winning_trades |-> 0,
     losing_trades |-> 0,
     win_rate_pct |-> Zero,
     avg_profit_per_win |-> Zero,
     avg_loss_per_loss |-> Zero,
     profit_factor |-> Zero,
     avg_holding_days |-> Zero,
     sortino_ratio |-> Zero]

\* per-trade profit
trade_profit(trade) == (trade.exit_price - trade.entry_price) * trade.quantity * 100

\* a classification that counts a zero-profit trade on neither side
trade_outcome_strict(profit) ==
    IF profit > 0 THEN "win" ELSE IF profit < 0 THEN "loss" ELSE "scratch"

\* a classification that counts a zero-profit trade as a win
trade_outcome_zero_wins(profit) == IF profit >= 0 THEN "win" ELSE "loss"

\* `if profit > 0.0 { win } else { loss }`
trade_outcome(profit) == IF profit > 0 THEN "win" ELSE "loss"

\* whole days between entry and exit
holding_days(trade) == NumDays(trade.exit_time - trade.entry_time)

\* the locals of calculate before the loop
LoopStart(m) ==
    [winning_trades |-> m.winning_trades,
     losing_trades |-> m.losing_trades,
     total_profit |-> 0,
     total_loss |-> 0,
     total_holding_days |-> 0,
     max_equity |-> m.initial_capital,
     max_drawdown |-> Zero,
     daily_returns |-> <<>>]

\* the change of equity relative to the peak, negative for a loss
current_drawdown_signed(max_equity, equity_after_trade) ==
    Frac((equity_after_trade - max_equity) * 100, max_equity)

\* (max_equity - equity_after_trade) / max_equity * 100
current_drawdown(max_equity, equity_after_trade) ==
    Frac((max_equity - equity_after_trade) * 100, max_equity)

\* one iteration of `for trade in trades`
LoopBody(m, acc, trade) ==
    LET profit == trade_profit(trade)
        outcome == trade_outcome(profit)
        equity_after_trade == acc.max_equity + profit
        drawdown == current_drawdown(acc.max_equity, equity_after_trade)
    IN [winning_trades |-> acc.winning_trades + (IF outcome = "win" THEN 1 ELSE 0),
        losing_trades |-> acc.losing_trades + (IF outcome = "loss" THEN 1 ELSE 0),
        total_profit |-> acc.total_profit + (IF outcome = "win" THEN profit ELSE 0),
        total_loss |-> acc.total_loss + (IF outcome = "loss" THEN Abs(profit) ELSE 0),
        total_holding_days |-> acc.total_holding_days + holding_days(trade),
        max_equity |-> IF equity_after_trade > acc.max_equity
                       THEN equity_after_trade ELSE acc.max_equity,
        max_drawdown |-> IF equity_after_trade > acc.max_equity THEN acc.max_drawdown
                         ELSE IF FracGT(drawdown, acc.max_drawdown)
                              THEN drawdown ELSE acc.max_drawdown,
        daily_returns |-> Append(acc.daily_returns,
                                 Frac(profit, m.initial_capital * holding_days(trade)))]

RECURSIVE Loop(_, _, _)
Loop(m, acc, ts) ==
    IF ts = <<>> THEN acc ELSE Loop(m, LoopBody(m, acc, Head(ts)), Tail(ts))

\* a profit factor that is 0 whenever there is no loss
profit_factor_without_infinity(total_profit, total_loss) ==
    IF total_loss > 0 THEN Frac(total_profit, total_loss) ELSE Zero

\* self.profit_factor
profit_factor(total_profit, total_loss) ==
    IF total_loss > 0 THEN Frac(total_profit, total_loss)
    ELSE IF total_profit > 0 THEN Infinity
    ELSE Zero

\* a < 0.0 for an f64: false for NaN
IsNegative(a) == a[1] < 0

\* a downside variance taken around the mean of the downside returns
downside_variance_around_mean(downside_returns) ==
    IF downside_returns # <<>>
    THEN LET mean == FracMean(downside_returns)
         IN FracMean([i \in 1..Len(downside_returns) |->
                        LET d == FracAdd(downside_returns[i], FracMul(<<-1, 1>>, mean))
                        IN FracMul(d, d)])
    ELSE Zero

\* the square of downside_deviation: the mean of the squared downside returns,
\* 0 when there are none
downside_variance(downside_returns) ==
    IF downside_returns # <<>>
    THEN FracMean([i \in 1..Len(downside_returns) |->
                     FracMul(downside_returns[i], downside_returns[i])])
    ELSE Zero

\* self.sortino_ratio after the `if !daily_returns.is_empty()` block.  A ratio
\* x = mean / sqrt(variance) * sqrt(252) is held exactly as the fraction
\* sign(x) * x * x / 252 = mean * |mean| / variance, which is 0, +infinity,
\* -infinity or NaN exactly when x is.
sortino_ratio(m, daily_returns) ==
    IF daily_returns = <<>> THEN m.sortino_ratio
    ELSE LET mean_return == FracMean(daily_returns)
             downside_returns == SelectSeq(daily_returns, IsNegative)
             variance == downside_variance(downside_returns)
         IN IF variance[1] > 0
            THEN FracMul(FracMul(mean_return, FracAbs(mean_return)), FracRecip(variance))
            ELSE IF mean_return[1] > 0 THEN Infinity
            ELSE Zero

\* BacktestMetrics::calculate on record m: the record it leaves.  The
\* annualized return and the Sharpe ratio are left out.
calculate(m, final_capital, ts, days_in_backtest) ==
    LET acc == Loop(m, LoopStart(m), ts)
        total_trades == Len(ts)
    IN [initial_capital |-> m.initial_capital,
        final_capital |-> final_capital,
        total_return_pct |-> Frac((final_capital - m.initial_capital) * 100, m.initial_capital),
        max_drawdown_pct |-> acc.max_drawdown,
        total_trades |-> total_trades,
        winning_trades |-> acc.winning_trades,
        losing_trades |-> acc.losing_trades,
        win_rate_pct |-> IF total_trades > 0
                         THEN Frac(acc.winning_trades * 100, total_trades) ELSE Zero,
        avg_profit_per_win |-> IF acc.winning_trades > 0
                               THEN Frac(acc.total_profit, acc.winning_trades) ELSE Zero,
        avg_loss_per_loss |-> IF acc.losing_trades > 0
                              THEN Frac(acc.total_loss, acc.losing_trades) ELSE Zero,
        profit_factor |-> profit_factor(acc.total_profit, acc.total_loss),
        avg_holding_days |-> IF total_trades > 0
                             THEN Frac(acc.total_holding_days, total_trades) ELSE Zero,
        sortino_ratio |-> sortino_ratio(m, acc.daily_returns)]


----------------------------------------------------------------------------
(* Inputs: configurations and options chains *)

\* strikes 5 apart from lo to hi
Grid(lo, hi) == {k \in lo..hi : (k - lo) % 5 = 0}

\* the strike maps of a chain, <<call strikes, put strikes>>: both sides with a
\* strike near each target of price 400, a single call strike, strikes
\* equidistant from the targets (420 and 380), no calls, no puts
StrikeShapes ==
    {<<{420, 430}, {370, 380}>>, <<{420}, {370, 380}>>, <<{415, 425}, {375, 385}>>,
     <<{}, {370, 380}>>, <<{420, 430}, {}>>}

\* underlying prices: inside the short strikes, just above the short call,
\* beyond the long call
Prices == {400, 421, 440}

\* how a chain's contracts are quoted, <<scheme, expiration in ticks after the
\* chain's timestamp>>: by OptionsContract::new expiring in a day and a half or
\* in thirty days, or by vendor data with bid = ask everywhere
QuoteKinds == {<<"synthetic", 3>>, <<"synthetic", 60>>, <<"flat", 60>>}

\* chain timestamps (ticks): 0h, 12h, 1.5d, 7.5d; their differences include
\* exactly one day (1 -> 3) and exactly seven days (1 -> 15)
Times == {0, 1, 3, 15}

Contract(scheme, option_type, strike, expiration, underlying_price, current_time) ==
    LET s == SyntheticContract(option_type, strike, expiration, underlying_price, current_time)
    IN CASE scheme = "synthetic" -> s
         [] scheme = "flat" -> [s EXCEPT !.bid = Unit, !.ask = Unit]
         [] scheme = "crossed" -> [s EXCEPT !.bid = s.ask, !.ask = s.bid]

\* an OptionsChain value
MakeChain(underlying_price, call_strikes, put_strikes, scheme, expiration, timestamp) ==
    [underlying_price |-> underlying_price,
     expiration |-> expiration,
     calls |-> [k \in call_strikes |->
                  Contract(scheme, "Call", k, expiration, underlying_price, timestamp)],
     puts |-> [k \in put_strikes |->
                  Contract(scheme, "Put", k, expiration, underlying_price, timestamp)],
     timestamp |-> timestamp]

Chains ==
    {MakeChain(price, shape[1], shape[2], kind[1], t + kind[2], t) :
        price \in Prices, shape \in StrikeShapes, kind \in QuoteKinds, t \in Times}

\* IronCondorConfig: percentages as whole percents (0.50 is 50)
Configs ==
    [zero_dte : BOOLEAN, profit_target_pct : {50}, stop_loss_pct : {75},
     exit_dte : {0}]

----------------------------------------------------------------------------
(* The strategy on its own: any sequence of calls on a fresh generator *)

RunnerIdle ==
    /\ pc = "idle"
    /\ bt_config = [initial_capital |-> 0, commission_per_contract |-> 0, days_in_backtest |-> 0]
    /\ events = <<>>
    /\ stream = <<>>
    /\ current_capital = 0
    /\ active_trades = <<>>
    /\ trades = <<>>
    /\ equity_curve = <<>>

MetricsIdle ==
    /\ metrics = <<>>
    /\ calc_calls = 0

\* IronCondorSignalGenerator::new
FreshStrategy ==
    /\ config \in Configs
    /\ active_positions = <<>>
    /\ current_price = 0
    /\ last_signal = None
    /\ next_id = 1
    /\ signal = None
    /\ call_time = None
    /\ buildable = FALSE
    /\ probe = None

Init == FreshStrategy /\ RunnerIdle /\ MetricsIdle

\* the strategy's part of a step that calls generate_signal_with_options_chain(c)
\* and gets outcome o
StrategyCall(c, o) ==
    /\ o.next_id <= MaxPositions + 1
    /\ active_positions' = o.active_positions
    /\ current_price' = c.underlying_price
    /\ last_signal' = o.last_signal
    /\ next_id' = o.next_id
    /\ signal' = o.signal
    /\ call_time' = Some(c.timestamp)
    /\ buildable' = (None \notin create_iron_condor_position(c, next_id))
    /\ UNCHANGED <<config, probe>>

\* one call of generate_signal_with_options_chain
Call ==
    \E c \in Chains :
        \E o \in generate_signal_with_options_chain(config, active_positions, last_signal, next_id, c) :
            /\ StrategyCall(c, o)
            /\ UNCHANGED <<runner_vars, metrics_vars>>

Next == Call

Spec == Init /\ [][Next]_vars

----------------------------------------------------------------------------
(* The scenario of test_iron_condor_signal_generation on the chain 395..430 *)

\* chains with call and put strikes 395, 400, ..., 430 and underlying price 400,
\* quoted by OptionsContract::new before their expiration
ScenarioChains ==
    {MakeChain(400, Grid(395, 430), Grid(395, 430), "synthetic", t + off, t) :
        off \in {3, 60}, t \in Times}

CallScenario ==
    \E c \in ScenarioChains :
        \E o \in generate_signal_with_options_chain(config, active_positions, last_signal, next_id, c) :
            /\ StrategyCall(c, o)
            /\ UNCHANGED <<runner_vars, metrics_vars>>

NextScenario == CallScenario

SpecScenario == Init /\ [][NextScenario]_vars

----------------------------------------------------------------------------
(* Claims about the strategy (specification Spec) *)

IsEnter(sig) == IsSome(sig) /\ Unwrap(sig).type = "Enter"
IsExit(sig) == IsSome(sig) /\ Unwrap(sig).type = "Exit"

\* every position held in the registry or emitted by the most recent call
KnownPositions ==
    {active_positions[i] : i \in DOMAIN active_positions}
        \cup (IF IsEnter(signal) THEN {Unwrap(signal).position} ELSE {})

\* C1: every position emitted in an Enter signal or held in the registry has
\* its long call strictly above its short call and its long put strictly
\* below its short put.
C1_WingsStrictlyOutside ==
    \A p \in KnownPositions :
        /\ p.long_call.strike > p.short_call.strike
        /\ p.long_put.strike < p.short_put.strike

\* C7: a call made while the registry is non-empty never returns Enter: it
\* returns no signal or an Exit signal.
C7_NoEnterWhileOpen ==
    [][DOMAIN active_positions # {} => (signal' = None \/ IsExit(signal'))]_vars

\* a call returned no signal and left a position registered
C7_Witness == signal = None /\ IsSome(call_time) /\ DOMAIN active_positions # {}

\* the gate of claim C8 in ticks: 7 days in zero-DTE mode, 1 day otherwise
C8_Gate == IF config.zero_dte THEN 7 * TicksPerDay ELSE 1 * TicksPerDay

\* C8: with the last Enter at L, a call at t with t - L <= gate returns no
\* Enter, even on an empty registry; a call on an empty registry with
\* t - L > gate (or no previous entry) and a chain that yields a net-credit
\* condor returns Enter.  So consecutive Enter signals are more than the gate
\* apart.
C8_EntryGate ==
    [][/\ (IsEnter(signal') /\ IsSome(last_signal))
            => Unwrap(signal').timestamp - Unwrap(last_signal) > C8_Gate
       /\ (/\ DOMAIN active_positions = {}
           /\ IsSome(last_signal) => Unwrap(call_time') - Unwrap(last_signal) > C8_Gate
           /\ buildable')
            => IsEnter(signal')]_vars

\* zero-DTE mode, exactly seven days after the last entry, on an empty registry
\* and a chain that yields a condor: no signal
C8_Witness ==
    /\ config.zero_dte
    /\ DOMAIN active_positions = {}
    /\ IsSome(last_signal) /\ IsSome(call_time)
    /\ Unwrap(call_time) - Unwrap(last_signal) = 7 * TicksPerDay
    /\ buildable
    /\ signal = None

----------------------------------------------------------------------------
(* Claims about the scenario (specification SpecScenario) *)

\* a generator no call has changed yet
FreshGenerator == last_signal = None /\ DOMAIN active_positions = {} /\ next_id = 1

\* C9: on a chain with call and put strikes 395..430 and underlying price 400,
\* the first call on a fresh generator returns Enter with short call > 400,
\* short put < 400, long call > short call, long put < short put and entry
\* premium > 0.
C9_ScenarioEntry ==
    [][FreshGenerator =>
         /\ IsEnter(signal')
         /\ LET p == Unwrap(signal').position
            IN /\ p.short_call.strike > 400
               /\ p.short_put.strike < 400
               /\ p.long_call.strike > p.short_call.strike
               /\ p.long_put.strike < p.short_put.strike
               /\ p.entry_premium > 0]_vars

----------------------------------------------------------------------------
(* The metrics engine on its own: calculate on any small ledger *)

\* trades as the metrics engine reads them: entry price 2, profits -200,
\* -100, 0, +100 and +300, held for no time or for a day and a half
MetricsTrades ==
    [entry_price : {2}, exit_price : {0, 1, 2, 3, 5}, quantity : {1},
     entry_time : {0}, exit_time : {0, 3}]

RECURSIVE SeqsUpTo(_, _)
SeqsUpTo(S, n) ==
    IF n = 0 THEN {<<>>}
    ELSE LET shorter == SeqsUpTo(S, n - 1)
         IN shorter \cup {Append(q, x) : q \in {r \in shorter : Len(r) = n - 1}, x \in S}

Ledgers == SeqsUpTo(MetricsTrades, MaxTrades)

InitMetrics ==
    /\ config \in {c \in Configs : c.zero_dte}
    /\ active_positions = <<>>
    /\ current_price = 0
    /\ last_signal = None
    /\ next_id = 1
    /\ signal = None
    /\ call_time = None
    /\ buildable = FALSE
    /\ probe = None
    /\ pc = "done"
    /\ bt_config \in [initial_capital : {150, 1000}, commission_per_contract : {0},
                     days_in_backtest : {365}]
    /\ events = <<>>
    /\ stream = <<>>
    /\ current_capital \in {900, 1000, 1200}
    /\ active_trades = <<>>
    /\ trades \in Ledgers
    /\ equity_curve = <<>>
    /\ metrics = NewMetrics(bt_config.initial_capital)
    /\ calc_calls = 0

\* metrics.calculate(current_capital, &trades, days_in_backtest)
Calculate ==
    /\ calc_calls < MaxCalcCalls
    /\ metrics' = calculate(metrics, current_capital, trades, bt_config.days_in_backtest)
    /\ calc_calls' = calc_calls + 1
    /\ UNCHANGED <<strategy_vars, runner_vars>>

NextMetrics == Calculate

SpecMetrics == InitMetrics /\ [][NextMetrics]_vars

----------------------------------------------------------------------------
(* Claims about the metrics engine (specification SpecMetrics) *)

RECURSIVE SumOver(_, _)
\* the sum of f[i] for i in 1..n
SumOver(f, n) == IF n = 0 THEN 0 ELSE f[n] + SumOver(f, n - 1)

\* (exit price - entry price) * quantity * 100 of the i-th ledger trade
ProfitAt(i) == (trades[i].exit_price - trades[i].entry_price) * trades[i].quantity * 100
GrossProfit == SumOver([i \in 1..Len(trades) |-> IF ProfitAt(i) > 0 THEN ProfitAt(i) ELSE 0],
                       Len(trades))
GrossLoss == SumOver([i \in 1..Len(trades) |-> IF ProfitAt(i) > 0 THEN 0 ELSE -ProfitAt(i)],
                     Len(trades))

\* C3: after calculate on a newly created record, total_trades =
\* winning_trades + losing_trades.
C3_TotalIsWinsPlusLosses ==
    calc_calls = 1 => metrics.total_trades = metrics.winning_trades + metrics.losing_trades

\* one call on a ledger with a winner, a loser and a zero-profit trade
C3_Witness ==
    /\ calc_calls = 1
    /\ metrics.winning_trades >= 1
    /\ metrics.total_trades = 3
    /\ \E i \in 1..Len(trades) : ProfitAt(i) = 0
    /\ \E i \in 1..Len(trades) : ProfitAt(i) < 0

\* C4: calculate is repeatable: with the same arguments it leaves the same
\* statistics record every time, also when called again on the same record.
C4_Repeatable ==
    calc_calls >= 1 =>
        metrics = calculate(NewMetrics(bt_config.initial_capital), current_capital, trades,
                            bt_config.days_in_backtest)

\* the drawdown fold of claim C5 from position i of the ledger on: running peak
\* and current capital, the largest (peak - current) / peak * 100 seen so far
RECURSIVE ClaimedDrawdown(_, _, _, _)
ClaimedDrawdown(i, peak, current, worst) ==
    IF i > Len(trades) THEN worst
    ELSE LET now == current + ProfitAt(i)
             dd == Frac((peak - now) * 100, peak)
         IN ClaimedDrawdown(i + 1,
                            IF now > peak THEN now ELSE peak,
                            now,
                            IF now < peak /\ FracGT(dd, worst) THEN dd ELSE worst)

\* C5: max drawdown is the maximum of (peak - current) / peak * 100 over the
\* ledger fold with peak seeded at initial capital and current accumulating
\* every trade's profit.
C5_DrawdownFold ==
    calc_calls >= 1 =>
        metrics.max_drawdown_pct
            = ClaimedDrawdown(1, bt_config.initial_capital, bt_config.initial_capital, Zero)

IsInfinity(x) == x = Infinity
IsZero(x) == x = Zero

\* C6 as claimed: profit factor is +infinity iff gross loss = 0 and gross
\* profit > 0, and is 0 iff gross profit and gross loss are both 0.
C6_ProfitFactorAsClaimed ==
    calc_calls >= 1 =>
        /\ IsInfinity(metrics.profit_factor) <=> (GrossLoss = 0 /\ GrossProfit > 0)
        /\ IsZero(metrics.profit_factor) <=> (GrossProfit = 0 /\ GrossLoss = 0)

\* C6 amended: profit factor is +infinity iff gross loss = 0 and gross
\* profit > 0, and is 0 iff gross profit is 0, whatever the gross loss.
C6_ProfitFactor ==
    calc_calls >= 1 =>
        /\ IsInfinity(metrics.profit_factor) <=> (GrossLoss = 0 /\ GrossProfit > 0)
        /\ IsZero(metrics.profit_factor) <=> GrossProfit = 0

\* a ledger of losers only: profit factor 0 with a positive gross loss
C6_Witness ==
    /\ calc_calls >= 1
    /\ GrossProfit = 0 /\ GrossLoss > 0
    /\ IsZero(metrics.profit_factor)

\* C22: the maximum drawdown is never negative, and it is 0 exactly when no
\* trade of the ledger has a negative profit.
C22_DrawdownSign ==
    calc_calls >= 1 =>
        /\ metrics.max_drawdown_pct[1] >= 0 /\ metrics.max_drawdown_pct[2] > 0
        /\ IsZero(metrics.max_drawdown_pct) <=> (\A i \in 1..Len(trades) : ProfitAt(i) >= 0)

\* a ledger whose only loser comes last, after a winner and a zero-profit
\* trade, and loses more than the initial capital
C22_Witness ==
    /\ calc_calls >= 1
    /\ Len(trades) = 3
    /\ bt_config.initial_capital < 200
    /\ ProfitAt(1) > 0 /\ ProfitAt(2) = 0 /\ ProfitAt(3) < 0
    /\ ~IsZero(metrics.max_drawdown_pct)

\* the ledger positions with a positive profit, and the others
Winners == {i \in 1..Len(trades) : ProfitAt(i) > 0}
Losers == {i \in 1..Len(trades) : ProfitAt(i) <= 0}

\* C23: each calculate call classifies every ledger trade exactly once by its
\* profit (exit - entry) * quantity * 100: a profit > 0 adds one to the winning
\* trades and the profit to the gross profit, a profit <= 0 (zero included)
\* adds one to the losing trades and |profit| to the gross loss.
C23_Classification ==
    [][calc_calls' = calc_calls + 1 =>
         /\ metrics'.winning_trades = metrics.winning_trades + Cardinality(Winners)
         /\ metrics'.losing_trades = metrics.losing_trades + Cardinality(Losers)
         /\ metrics'.total_trades = Cardinality(Winners) + Cardinality(Losers)
         /\ metrics'.avg_profit_per_win
              = IF metrics'.winning_trades > 0
                THEN Frac(GrossProfit, metrics'.winning_trades) ELSE Zero
         /\ metrics'.avg_loss_per_loss
              = IF metrics'.losing_trades > 0
                THEN Frac(GrossLoss, metrics'.losing_trades) ELSE Zero
         /\ (GrossLoss > 0 => metrics'.profit_factor = Frac(GrossProfit, GrossLoss))]_vars

\* a second call on a ledger of a winner, a zero-profit trade and a loser: the
\* zero-profit trade and the loser were counted as losing trades in both calls
C23_Witness ==
    /\ calc_calls = 2
    /\ Len(trades) = 3
    /\ Cardinality(Winners) = 1
    /\ \E i \in Losers : ProfitAt(i) = 0
    /\ \E i \in Losers : ProfitAt(i) < 0
    /\ metrics.winning_trades = 2 /\ metrics.losing_trades = 4

\* the daily return of the i-th ledger trade, profit / initial capital /
\* whole holding days, and the daily returns of the ledger in order
DailyReturnAt(i) ==
    Frac(ProfitAt(i),
         bt_config.initial_capital * NumDays(trades[i].exit_time - trades[i].entry_time))
LedgerReturns == [i \in 1..Len(trades) |-> DailyReturnAt(i)]
MeanReturn == FracMean(LedgerReturns)
DownsideReturns == SelectSeq(LedgerReturns, IsNegative)

\* the mean of the squares of q, and the population variance of q around its
\* own mean; 0 for an empty q
MeanSquare(q) ==
    IF q = <<>> THEN Zero ELSE FracMean([i \in 1..Len(q) |-> FracMul(q[i], q[i])])
PopulationVariance(q) ==
    IF q = <<>> THEN Zero
    ELSE FracMean([i \in 1..Len(q) |->
                     FracMul(FracAdd(q[i], FracMul(<<-1, 1>>, FracMean(q))),
                             FracAdd(q[i], FracMul(<<-1, 1>>, FracMean(q))))])

\* mean / sqrt(variance) * sqrt(252), held as sortino_ratio holds it
RatioOf(mean, variance) == FracMul(FracMul(mean, FracAbs(mean)), FracRecip(variance))

\* C25 as claimed: the Sortino ratio is mean / downside deviation * sqrt(252)
\* with the downside deviation being the population standard deviation, around
\* their own mean, of the daily returns < 0; it is 0 when the mean is <= 0 and
\* no daily return is negative, and +infinity whenever the mean is > 0 and
\* that downside deviation is 0.
C25_SortinoAsClaimed ==
    (calc_calls >= 1 /\ trades # <<>>) =>
        LET variance == PopulationVariance(DownsideReturns)
        IN /\ variance[1] > 0 =>
                metrics.sortino_ratio = RatioOf(MeanReturn, variance)
           /\ (MeanReturn[1] <= 0 /\ MeanReturn # NaN /\ DownsideReturns = <<>>) =>
                IsZero(metrics.sortino_ratio)
           /\ (MeanReturn[1] > 0 /\ IsZero(variance)) =>
                IsInfinity(metrics.sortino_ratio)

\* C25 amended: the Sortino ratio is mean / downside deviation * sqrt(252)
\* with the downside deviation being the root mean square of the daily returns
\* < 0 (their deviation around zero); it is 0 when the mean is <= 0 and no
\* daily return is negative, and +infinity whenever the mean is > 0 and no
\* daily return is negative.
C25_Sortino ==
    (calc_calls >= 1 /\ trades # <<>>) =>
        LET variance == MeanSquare(DownsideReturns)
        IN /\ DownsideReturns # <<>> =>
                /\ variance[1] > 0
                /\ metrics.sortino_ratio = RatioOf(MeanReturn, variance)
           /\ (MeanReturn[1] <= 0 /\ MeanReturn # NaN /\ DownsideReturns = <<>>) =>
                IsZero(metrics.sortino_ratio)
           /\ (MeanReturn[1] > 0 /\ DownsideReturns = <<>>) =>
                IsInfinity(metrics.sortino_ratio)

\* a ledger of a winner and two different losers, each held a day, with a
\* negative mean return: the ratio is finite and negative
C25_Witness ==
    /\ calc_calls >= 1
    /\ Len(trades) = 3
    /\ \A i \in 1..Len(trades) : DailyReturnAt(i)[2] > 0
    /\ Len(DownsideReturns) = 2
    /\ DownsideReturns[1] # DownsideReturns[2]
    /\ MeanReturn[1] < 0
    /\ metrics.sortino_ratio[1] < 0 /\ metrics.sortino_ratio[2] > 0

----------------------------------------------------------------------------
(* backtest/runner.rs: the execution loop *)

RECURSIVE StrLess(_, _)
\* String::cmp on expiration keys, a key being its sequence of characters
\* (digits here): a < b
StrLess(a, b) ==
    IF a = <<>> THEN b # <<>>
    ELSE IF b = <<>> THEN FALSE
    ELSE IF Head(a) # Head(b) THEN Head(a) < Head(b)
    ELSE StrLess(Tail(a), Tail(b))

\* EnhancedMarketEvent::get_nearest_expiration: the least key in string order
get_nearest_expiration(event) ==
    LET keys == DOMAIN event.options_chains
    IN IF keys = {} THEN None
       ELSE Some(CHOOSE k \in keys : \A j \in keys : j = k \/ StrLess(k, j))

\* EnhancedMarketEvent::get_options_chain
get_options_chain(event, expiration_date) ==
    IF expiration_date \in DOMAIN event.options_chains
    THEN Some(event.options_chains[expiration_date]) ELSE None

\* a lookup that makes up a chain without contracts when the snapshot has none
nearest_chain_or_default(event) ==
    LET key == get_nearest_expiration(event)
    IN IF IsSome(key) THEN get_options_chain(event, Unwrap(key))
       ELSE Some([underlying_price |-> event.underlying_price,
                  expiration |-> event.timestamp,
                  calls |-> <<>>, puts |-> <<>>,
                  timestamp |-> event.timestamp])

\* the chain the loop hands to the strategy for an event, if any
nearest_chain(event) ==
    LET key == get_nearest_expiration(event)
    IN IF IsSome(key) THEN get_options_chain(event, Unwrap(key)) ELSE None

\* a Trade that starts with the entry premium as its exit price
OpenTrade_priced_at_entry(position, timestamp, options_chain) ==
    [id |-> position.id,
     entry_price |-> position.entry_premium,
     exit_price |-> position.entry_premium,
     quantity |-> position.quantity,
     entry_time |-> timestamp,
     exit_time |-> timestamp,
     metadata |-> [entry_premium |-> position.entry_premium,
                   max_profit |-> max_profit(position),
                   max_loss |-> max_loss(position),
                   short_call_strike |-> position.short_call.strike,
                   long_call_strike |-> position.long_call.strike,
                   short_put_strike |-> position.short_put.strike,
                   long_put_strike |-> position.long_put.strike,
                   underlying_price |-> options_chain.underlying_price,
                   status |-> "open"]]
\* the Trade built for an Enter signal
OpenTrade(position, timestamp, options_chain) ==
    [id |-> position.id,
     entry_price |-> position.entry_premium,
     exit_price |-> 0,
     quantity |-> position.quantity,
     entry_time |-> timestamp,
     exit_time |-> timestamp,
     metadata |-> [entry_premium |-> position.entry_premium,
                   max_profit |-> max_profit(position),
                   max_loss |-> max_loss(position),
                   short_call_strike |-> position.short_call.strike,
                   long_call_strike |-> position.long_call.strike,
                   short_put_strike |-> position.short_put.strike,
                   long_put_strike |-> position.long_put.strike,
                   underlying_price |-> options_chain.underlying_price,
                   status |-> "open"]]

\* a commission charged for one leg only
commission_single_leg(cfg, quantity) == cfg.commission_per_contract * quantity
\* no commission charged at all
commission_free(cfg, quantity) == 0
\* commission_per_contract * quantity * 4.0 (four legs)
commission(cfg, quantity) == cfg.commission_per_contract * quantity * 4

\* a loop that books an Exit for a trade it does not hold as a buy-back
on_signal_booking_unknown(cfg, capital, open, ledger, sig, options_chain) ==
    IF sig = None THEN [current_capital |-> capital, active_trades |-> open, trades |-> ledger]
    ELSE LET g == Unwrap(sig)
         IN IF g.type = "Enter"
            THEN [current_capital |->
                      capital + (g.position.entry_premium
                                   - cfg.commission_per_contract * g.position.quantity * 4),
                  active_trades |->
                      Insert(open, g.position.id, OpenTrade(g.position, g.timestamp, options_chain)),
                  trades |-> ledger]
            ELSE LET known == g.position_id \in DOMAIN open
                     entry_price == IF known THEN open[g.position_id].entry_price ELSE 0
                     quantity == IF known THEN open[g.position_id].quantity ELSE 1
                 IN [current_capital |->
                         capital + (entry_price - g.exit_premium
                                      - cfg.commission_per_contract * quantity * 4),
                     active_trades |-> Remove(open, g.position_id),
                     trades |-> IF known
                                THEN Append(ledger, [open[g.position_id] EXCEPT
                                                       !.exit_price = g.exit_premium,
                                                       !.exit_time = g.timestamp])
                                ELSE ledger]

\* a loop whose exit P&L is the buy-back cost alone, the entry premium
\* having been credited at entry
on_signal_premium_once(cfg, capital, open, ledger, sig, options_chain) ==
    IF sig = None THEN [current_capital |-> capital, active_trades |-> open, trades |-> ledger]
    ELSE LET g == Unwrap(sig)
         IN IF g.type = "Enter"
            THEN [current_capital |->
                      capital + (g.position.entry_premium - commission(cfg, g.position.quantity)),
                  active_trades |->
                      Insert(open, g.position.id, OpenTrade(g.position, g.timestamp, options_chain)),
                  trades |-> ledger]
            ELSE IF g.position_id \in DOMAIN open
            THEN LET trade == [open[g.position_id] EXCEPT !.exit_price = g.exit_premium,
                                                           !.exit_time = g.timestamp]
                     pnl == -trade.exit_price
                 IN [current_capital |-> capital + (pnl - commission(cfg, trade.quantity)),
                     active_trades |-> Remove(open, g.position_id),
                     trades |-> Append(ledger, trade)]
            ELSE [current_capital |-> capital, active_trades |-> open, trades |-> ledger]

\* a loop that drops every signal
on_signal_dropped(cfg, capital, open, ledger, sig, options_chain) ==
    [current_capital |-> capital, active_trades |-> open, trades |-> ledger]
\* the match on the signal: the capital, open trades and ledger it leaves
on_signal(cfg, capital, open, ledger, sig, options_chain) ==
    IF sig = None THEN [current_capital |-> capital, active_trades |-> open, trades |-> ledger]
    ELSE LET g == Unwrap(sig)
         IN IF g.type = "Enter"
            THEN [current_capital |->
                      capital + (g.position.entry_premium - commission(cfg, g.position.quantity)),
                  active_trades |->
                      Insert(open, g.position.id, OpenTrade(g.position, g.timestamp, options_chain)),
                  trades |-> ledger]
            ELSE IF g.position_id \in DOMAIN open
            THEN LET trade == [open[g.position_id] EXCEPT !.exit_price = g.exit_premium,
                                                           !.exit_time = g.timestamp]
                     pnl == trade.entry_price - trade.exit_price
                 IN [current_capital |-> capital + (pnl - commission(cfg, trade.quantity)),
                     active_trades |-> Remove(open, g.position_id),
                     trades |-> Append(ledger, trade)]
            ELSE [current_capital |-> capital, active_trades |-> open, trades |-> ledger]

\* an iteration that visits no entry
NoOrder(S) == {<<>>}
\* the orders in which a HashMap with key set S can be iterated
Orders(S) ==
    {q \in [1..Cardinality(S) -> S] : \A i, j \in 1..Cardinality(S) : q[i] = q[j] => i = j}

\* market events: timestamps 0h, 1.5d and 8d; calls 420/430 and puts 370/380
RunTimes == {0, 3, 16}
RunChain(price, scheme, expiration, timestamp) ==
    MakeChain(price, {420, 430}, {370, 380}, scheme, expiration, timestamp)
MarketEvent(timestamp, price, chains) ==
    [underlying_price |-> price, options_chains |-> chains, timestamp |-> timestamp]
\* expiration keys "2" (a chain thirty days out) and "10" (a chain a day and a
\* half out): "10" sorts before "2"
KeyFar == <<2>>
KeyNear == <<1, 0>>
MarketEvents ==
    UNION {{MarketEvent(t, 400, <<>>),
            MarketEvent(t, 400, [k \in {KeyFar} |-> RunChain(400, "synthetic", t + 60, t)]),
            MarketEvent(t, 440, [k \in {KeyFar} |-> RunChain(440, "synthetic", t + 60, t)]),
            MarketEvent(t, 400, [k \in {KeyFar} |-> RunChain(400, "flat", t + 60, t)]),
            MarketEvent(t, 400, [k \in {KeyFar, KeyNear} |->
                                    IF k = KeyFar THEN RunChain(400, "synthetic", t + 60, t)
                                    ELSE RunChain(400, "synthetic", t + 3, t)])} :
           t \in RunTimes}

\* BacktestRunner::new and the locals at the top of run: 1000 dollars of
\* capital, 0.65 dollars of commission per contract
InitRun ==
    /\ FreshStrategy
    /\ pc = "running"
    /\ bt_config = [initial_capital |-> 1000 * Unit, commission_per_contract |-> 6500,
                    days_in_backtest |-> 365]
    /\ events = <<>>
    /\ stream = <<>>
    /\ current_capital = bt_config.initial_capital
    /\ active_trades = <<>>
    /\ trades = <<>>
    /\ equity_curve = <<>>
    /\ metrics = <<>>
    /\ calc_calls = 0

\* the body of the while loop for snapshot `event`
Consume(event) ==
    LET chain == nearest_chain(event)
    IN /\ events' = Append(events, event)
       /\ equity_curve' = Insert(equity_curve, event.timestamp, current_capital)
       /\ IF IsSome(chain)
          THEN \E o \in generate_signal_with_options_chain(
                            config, active_positions, last_signal, next_id, Unwrap(chain)) :
                  /\ StrategyCall(Unwrap(chain), o)
                  /\ LET r == on_signal(bt_config, current_capital, active_trades, trades,
                                        o.signal, Unwrap(chain))
                     IN /\ current_capital' = r.current_capital
                        /\ active_trades' = r.active_trades
                        /\ trades' = r.trades
          ELSE /\ signal' = None
               /\ call_time' = None
               /\ buildable' = FALSE
               /\ UNCHANGED <<config, active_positions, current_price, last_signal,
                               next_id, probe>>
               /\ UNCHANGED <<current_capital, active_trades, trades>>

\* one iteration of the while loop, on the next event of the stream
ProcessEvent ==
    /\ pc = "running"
    /\ Len(events) < MaxEvents
    /\ \E event \in MarketEvents : Consume(event)
    /\ UNCHANGED <<pc, bt_config, stream, metrics_vars>>

\* the end of the stream: open trades join the ledger, metrics are computed
\* a drain that puts the open trades in front of the closed ones
drain_in_front(ledger, open, order) ==
    [i \in 1..Len(order) |-> [open[order[i]] EXCEPT !.metadata.status = "open"]] \o ledger
\* `for (_, mut trade) in active_trades { .. trades.push(trade) }` visiting
\* the open trades in the given order
drain(ledger, open, order) ==
    ledger \o [i \in 1..Len(order) |-> [open[order[i]] EXCEPT !.metadata.status = "open"]]

Finish ==
    /\ pc = "running"
    /\ \E order \in Orders(DOMAIN active_trades) :
          trades' = drain(trades, active_trades, order)
    /\ active_trades' = <<>>
    /\ metrics' = calculate(NewMetrics(bt_config.initial_capital), current_capital, trades',
                            bt_config.days_in_backtest)
    /\ calc_calls' = 1
    /\ pc' = "done"
    /\ UNCHANGED <<strategy_vars, bt_config, events, stream, current_capital, equity_curve>>

NextRun == ProcessEvent \/ Finish

SpecRun == InitRun /\ [][NextRun]_vars

----------------------------------------------------------------------------
(* Claims about the strategy inside the execution loop (specification SpecRun) *)

\* this step processed an event whose nearest chain went to the strategy
EventStep == Len(events') = Len(events) + 1 /\ IsSome(call_time')
\* the chain of the event processed last
CurrentChain == Unwrap(nearest_chain(events[Len(events)]))

\* the premium to close position p at the quotes chain c holds for p's legs
ClosingPremiumAt(c, p) ==
    (Unwrap(get_call(c, p.short_call.strike)).ask + Unwrap(get_put(c, p.short_put.strike)).ask
       - Unwrap(get_call(c, p.long_call.strike)).bid
       - Unwrap(get_put(c, p.long_put.strike)).bid) * p.quantity
LegsQuoted(c, p) ==
    /\ IsSome(get_call(c, p.short_call.strike)) /\ IsSome(get_call(c, p.long_call.strike))
    /\ IsSome(get_put(c, p.short_put.strike)) /\ IsSome(get_put(c, p.long_put.strike))

\* C2: the exit premium of every Exit signal is (short-call ask + short-put
\* ask - long-call bid - long-put bid) * quantity at the quotes that the chain
\* passed to the current call holds for the position's four legs.
C2_ExitPremiumFromCurrentChain ==
    [][(EventStep /\ IsExit(signal')) =>
          LET p == active_positions[Unwrap(signal').position_id]
              c == CurrentChain'
          IN LegsQuoted(c, p) => Unwrap(signal').exit_premium = ClosingPremiumAt(c, p)]_vars

\* position p is made of four contracts of a chain that was handed to the
\* strategy at p's entry time
FromEntryChain(p) ==
    \E i \in 1..Len(events) :
        LET c == nearest_chain(events[i])
        IN /\ IsSome(c)
           /\ Unwrap(c).timestamp = p.entry_time
           /\ get_call(Unwrap(c), p.short_call.strike) = Some(p.short_call)
           /\ get_call(Unwrap(c), p.long_call.strike) = Some(p.long_call)
           /\ get_put(Unwrap(c), p.short_put.strike) = Some(p.short_put)
           /\ get_put(Unwrap(c), p.long_put.strike) = Some(p.long_put)
NetCreditOfLegs(p) ==
    /\ p.entry_premium
         = (p.short_call.bid + p.short_put.bid - p.long_call.ask - p.long_put.ask) * p.quantity
    /\ p.entry_premium > 0

\* C10: every registered or emitted position has entry premium (short-call
\* bid + short-put bid - long-call ask - long-put ask) * quantity at the entry
\* chain's quotes, strictly positive; every trade record has entry price > 0.
C10_EntryPremiumPositive ==
    /\ \A id \in DOMAIN active_positions :
          NetCreditOfLegs(active_positions[id]) /\ FromEntryChain(active_positions[id])
    /\ IsEnter(signal) =>
          NetCreditOfLegs(Unwrap(signal).position) /\ FromEntryChain(Unwrap(signal).position)
    /\ \A id \in DOMAIN active_trades : active_trades[id].entry_price > 0
    /\ \A i \in 1..Len(trades) : trades[i].entry_price > 0

\* a second entry after a closed trade: a position in the registry, an Enter
\* signal just emitted, an open trade and a closed trade in the ledger
C10_Witness ==
    /\ IsEnter(signal)
    /\ DOMAIN active_positions # {}
    /\ DOMAIN active_trades # {}
    /\ Len(trades) >= 1

----------------------------------------------------------------------------
(* Claims about the execution loop (specification SpecRun) *)

\* this step consumed one snapshot of the stream
SnapshotStep == Len(events') = Len(events) + 1

\* C11: on an Exit signal for a trade in the open-trade set the loop sets the
\* trade's exit price and exit time from the signal, changes capital by
\* (entry price - exit price) - commission per contract * quantity * 4,
\* removes the trade from the open-trade set and appends it to the ledger.
C11_ExitAccounting ==
    [][(SnapshotStep /\ IsExit(signal') /\ IsSome(call_time')
          /\ Unwrap(signal').position_id \in DOMAIN active_trades) =>
          LET g == Unwrap(signal')
              before == active_trades[g.position_id]
              closed == trades'[Len(trades')]
          IN /\ Len(trades') = Len(trades) + 1
             /\ SubSeq(trades', 1, Len(trades)) = trades
             /\ closed = [before EXCEPT !.exit_price = g.exit_premium,
                                        !.exit_time = g.timestamp]
             /\ current_capital' - current_capital
                  = (before.entry_price - g.exit_premium)
                      - bt_config.commission_per_contract * before.quantity * 4
             /\ DOMAIN active_trades' = DOMAIN active_trades \ {g.position_id}
             /\ \A id \in DOMAIN active_trades' : active_trades'[id] = active_trades[id]]_vars

\* an Exit was just processed that closed a trade later than it was opened,
\* at an exit price different from the entry price
C11_Witness ==
    /\ IsExit(signal)
    /\ Len(trades) >= 1
    /\ trades[Len(trades)].id = Unwrap(signal).position_id
    /\ trades[Len(trades)].exit_time > trades[Len(trades)].entry_time
    /\ trades[Len(trades)].exit_price = Unwrap(signal).exit_premium
    /\ trades[Len(trades)].exit_price # trades[Len(trades)].entry_price

\* C12: on an Enter signal capital changes by entry premium - commission per
\* contract * quantity * 4, a trade record keyed by the position id joins the
\* open-trade set, and the ledger is unchanged at that step.
C12_EnterAccounting ==
    [][(SnapshotStep /\ IsEnter(signal')) =>
          LET g == Unwrap(signal')
          IN /\ current_capital' - current_capital
                  = g.position.entry_premium
                      - bt_config.commission_per_contract * g.position.quantity * 4
             /\ DOMAIN active_trades' = DOMAIN active_trades \cup {g.position.id}
             /\ g.position.id \notin DOMAIN active_trades
             /\ active_trades'[g.position.id].id = g.position.id
             /\ active_trades'[g.position.id].entry_price = g.position.entry_premium
             /\ \A id \in DOMAIN active_trades : active_trades'[id] = active_trades[id]
             /\ trades' = trades]_vars

\* an Enter was just processed while the ledger already held a closed trade
C12_Witness ==
    /\ IsEnter(signal)
    /\ Unwrap(signal).position.id \in DOMAIN active_trades
    /\ Len(trades) >= 1
    /\ current_capital # bt_config.initial_capital
\* the run is over: the ledger is final and the metrics are computed
RunOver == pc = "done" /\ events # <<>>
\* the ids of the Enter signals emitted so far: ids are handed out in order,
\* one per Enter
EnteredIds == 1..(next_id - 1)
LedgerIds == {trades[i].id : i \in 1..Len(trades)}

\* C13: in the final ledger a trade is flagged "open" if and only if no Exit
\* signal was processed for its position before the end of the stream, that
\* is, if and only if its position is still in the strategy's registry.
C13_StatusTellsOpenFromClosed ==
    RunOver =>
        \A i \in 1..Len(trades) :
            trades[i].metadata.status = "open" <=> trades[i].id \in DOMAIN active_positions

\* C14: at end of stream every trade still in the open-trade set is appended
\* to the ledger with status "open", and the ledger with these trades is the
\* one the metrics engine counts in total_trades.
C14_OpenTradesReachLedger ==
    [][(pc = "running" /\ pc' = "done") =>
          /\ Len(trades') = Len(trades) + Cardinality(DOMAIN active_trades)
          /\ SubSeq(trades', 1, Len(trades)) = trades
          /\ \A id \in DOMAIN active_trades :
                \E i \in (Len(trades) + 1)..Len(trades') :
                    /\ trades'[i] = [active_trades[id] EXCEPT !.metadata.status = "open"]
                    /\ trades'[i].metadata.status = "open"
          /\ metrics'.total_trades = Len(trades')]_vars

\* a finished run whose ledger holds a closed trade and, after it, a trade
\* that was still open at the end of the stream
C14_Witness ==
    /\ RunOver
    /\ Len(trades) = 2
    /\ trades[1].id \notin DOMAIN active_positions
    /\ trades[2].id \in DOMAIN active_positions
    /\ trades[2].exit_price = 0
    /\ metrics.total_trades = 2

\* C15: at the end of a run the ledger holds exactly one record for each
\* Enter signal emitted (by position id), no id twice, and no record without
\* an Enter signal.
C15_OneRecordPerEnter ==
    RunOver =>
        /\ LedgerIds = EnteredIds
        /\ \A i, j \in 1..Len(trades) : trades[i].id = trades[j].id => i = j

\* a finished run with two Enter signals, the first position exited
C15_Witness ==
    /\ RunOver
    /\ next_id = 3
    /\ Len(trades) = 2
    /\ trades[1].exit_time > trades[1].entry_time

\* C16: after each processed snapshot the ids of the open-trade set are the
\* ids of the strategy's registry; so every Exit signal names a trade of the
\* open-trade set.
C16_OpenTradesMirrorRegistry ==
    [][SnapshotStep =>
          /\ DOMAIN active_trades' = DOMAIN active_positions'
          /\ (IsExit(signal') /\ IsSome(call_time'))
                => Unwrap(signal').position_id \in DOMAIN active_trades]_vars

\* after a snapshot the loop and the strategy both hold the same open id,
\* with a closed trade behind them
C16_Witness ==
    /\ pc = "running"
    /\ DOMAIN active_trades = {2}
    /\ DOMAIN active_positions = {2}
    /\ Len(trades) = 1

----------------------------------------------------------------------------
(* The execution loop on snapshots with arbitrarily keyed chains
   (specification SpecKeys) *)

\* snapshots at 0h and 1.5d whose chains, one a day and a half and one thirty
\* days from expiration, sit under any of the keys "2" and "10" in any
\* arrangement, and a snapshot without chains
KeyedEvents ==
    UNION {{MarketEvent(t, 400, chains) :
              chains \in UNION {[keys -> {RunChain(400, "synthetic", t + 3, t),
                                          RunChain(400, "synthetic", t + 60, t)}] :
                                  keys \in SUBSET {KeyFar, KeyNear}}} :
           t \in {0, 3}}

ProcessKeyed ==
    /\ pc = "running"
    /\ Len(events) < MaxEvents
    /\ \E event \in KeyedEvents : Consume(event)
    /\ UNCHANGED <<pc, bt_config, stream, metrics_vars>>

NextKeys == ProcessKeyed \/ Finish

SpecKeys == InitRun /\ [][NextKeys]_vars

\* the chains of a snapshot that expire first
EarliestChains(event) ==
    LET chains == {event.options_chains[k] : k \in DOMAIN event.options_chains}
    IN {c \in chains : \A d \in chains : c.expiration <= d.expiration}

\* C26: for every snapshot with at least one options chain the loop invokes
\* the strategy on the chain whose expiration is the earliest among the
\* snapshot's chains, whatever keys the chains are stored under.
C26_NearestExpiration ==
    [][(SnapshotStep /\ DOMAIN events'[Len(events')].options_chains # {}) =>
          \E c \in EarliestChains(events'[Len(events')]) :
             \E o \in generate_signal_with_options_chain(config, active_positions,
                                                         last_signal, next_id, c) :
                /\ active_positions' = o.active_positions
                /\ last_signal' = o.last_signal
                /\ next_id' = o.next_id
                /\ signal' = o.signal
                /\ call_time' = Some(c.timestamp)
                /\ current_price' = c.underlying_price]_vars

----------------------------------------------------------------------------
(* find_closest_strike on its own (specification SpecClosest) *)

\* the strikes of the side searched, the strikes of the other side, the targets
ProbeStrikes == SUBSET {370, 380, 400, 410, 430}
OtherStrikes == {390, 420}
ProbeTargets == {300, 372, 375, 400, 405, 428, 500}

\* the chain whose side option_type has the strikes searched
ProbeChain(strikes, option_type) ==
    MakeChain(400,
              IF option_type = "Call" THEN strikes ELSE OtherStrikes,
              IF option_type = "Put" THEN strikes ELSE OtherStrikes,
              "synthetic", 60, 0)

\* one direct call of find_closest_strike
FindClosest ==
    /\ \E strikes \in ProbeStrikes, target_strike \in ProbeTargets,
          option_type \in {"Call", "Put"} :
          LET c == ProbeChain(strikes, option_type)
          IN \E r \in find_closest_strike(c, target_strike, option_type) :
                probe' = Some([strikes |-> strikes, target_strike |-> target_strike,
                               option_type |-> option_type, result |-> r])
    /\ UNCHANGED <<config, active_positions, current_price, last_signal, next_id,
                   signal, call_time, buildable>>
    /\ UNCHANGED <<runner_vars, metrics_vars>>

NextClosest == FindClosest

SpecClosest == Init /\ [][NextClosest]_vars

\* C17: on a side with at least one strike find_closest_strike returns a
\* strike of that side at minimal absolute distance from the target: the
\* maximum strike for a target above all strikes, the minimum strike for a
\* target below all, one of the two on a tie; it returns none only when the
\* side has no strikes.
C17_ClosestStrike ==
    IsSome(probe) =>
        LET q == Unwrap(probe)
            S == q.strikes
            t == q.target_strike
        IN /\ q.result = None <=> S = {}
           /\ S # {} =>
                LET r == Unwrap(q.result)
                IN /\ r \in S
                   /\ \A j \in S : Abs(r - t) <= Abs(j - t)
                   /\ (\A j \in S : t > j) => \A j \in S : r >= j
                   /\ (\A j \in S : t < j) => \A j \in S : r <= j

\* target 405 between the strikes 400 and 410: the upper one was returned,
\* the lower one being as close
C17_Witness ==
    /\ IsSome(probe)
    /\ Unwrap(probe).target_strike = 405
    /\ {400, 410} \subseteq Unwrap(probe).strikes
    /\ Unwrap(probe).result = Some(410)

\* C24: the nearest-strike search is deterministic: for the same strikes and
\* the same target every call returns the same strike, also when two strikes
\* are equally close to the target; the strike a call returned is the only one
\* the search can return for its arguments.
C24_ClosestStrikeDeterministic ==
    IsSome(probe) =>
        LET q == Unwrap(probe)
        IN \A r \in find_closest_strike(ProbeChain(q.strikes, q.option_type),
                                        q.target_strike, q.option_type) :
              r = q.result

----------------------------------------------------------------------------
(* Claims about the exit triggers *)

\* the four triggers of claim C18 for position p at underlying price `price`
\* and chain timestamp t, percentages being pnl * 100 / max profit
ProfitTrigger(p, price) ==
    LET pct == profit_percentage(p, price)
    IN pct[1] >= config.profit_target_pct * pct[2]
StopTrigger(p, price) ==
    LET pct == profit_percentage(p, price)
    IN pct[1] <= -(config.stop_loss_pct * pct[2])
DteTrigger(p, t) == NumDays(p.short_call.expiration - t) <= config.exit_dte
TimeTrigger(t) == IsSome(last_signal) /\ t - Unwrap(last_signal) > 1 * TicksPerDay
AnyTrigger(p, price, t) ==
    ProfitTrigger(p, price) \/ StopTrigger(p, price) \/ DteTrigger(p, t) \/ TimeTrigger(t)
ReasonByPrecedence(p, price, t) ==
    CASE ProfitTrigger(p, price) -> "profit target"
      [] ~ProfitTrigger(p, price) /\ StopTrigger(p, price) -> "stop loss"
      [] ~ProfitTrigger(p, price) /\ ~StopTrigger(p, price) /\ DteTrigger(p, t) -> "DTE exit"
      [] OTHER -> "time exit"

\* C18: a call on a non-empty registry returns Exit exactly when a trigger
\* (profit target, stop loss, DTE, time) holds for a registered position; the
\* Exit names such a position and its reason is that of the highest trigger
\* that holds, in the order profit target > stop loss > DTE exit > time exit.
C18_ExitTriggers ==
    [][(IsSome(call_time') /\ DOMAIN active_positions # {}) =>
          LET price == current_price'
              t == Unwrap(call_time')
              due == {id \in DOMAIN active_positions :
                        AnyTrigger(active_positions[id], price, t)}
          IN /\ IsExit(signal') <=> due # {}
             /\ IsExit(signal') =>
                  /\ Unwrap(signal').position_id \in due
                  /\ Unwrap(signal').reason
                       = ReasonByPrecedence(active_positions[Unwrap(signal').position_id],
                                            price, t)]_vars

\* an Exit for the DTE trigger at a moment when the time trigger holds too
C18_Witness ==
    /\ IsExit(signal)
    /\ Unwrap(signal).reason = "DTE exit"
    /\ Unwrap(call_time) - Unwrap(last_signal) > 1 * TicksPerDay

----------------------------------------------------------------------------
(* The strategy called on a registry that holds two positions (state is a   *)
(* public field: test_iron_condor_time_based_entry_control edits it)        *)

\* chains at timestamp 0 on which the registered condors were built: a day
\* and a half or thirty days to expiration
RegistryChains(call_strikes, put_strikes) ==
    {MakeChain(400, call_strikes, put_strikes, "synthetic", expiration, 0) :
        expiration \in {3, 60}}
RegistryPositions(id, call_strikes, put_strikes) ==
    {Unwrap(p) : p \in UNION {create_iron_condor_position(c, id) \ {None} :
                                c \in RegistryChains(call_strikes, put_strikes)}}

InitRegistry ==
    /\ config \in Configs
    /\ \E p1 \in RegistryPositions(1, {420, 430}, {370, 380}),
          p2 \in RegistryPositions(2, {415, 425}, {375, 385}) :
          active_positions = Insert(Insert(<<>>, 1, p1), 2, p2)
    /\ current_price = 400
    /\ last_signal = Some(0)
    /\ next_id = 3
    /\ signal = None
    /\ call_time = None
    /\ buildable = FALSE
    /\ probe = None
    /\ RunnerIdle
    /\ MetricsIdle

SpecRegistry == InitRegistry /\ [][Next]_vars

\* C19: a call returns at most one signal and removes at most one position;
\* when several registered positions satisfy an exit trigger, one Exit is
\* returned, exactly the position it names is removed, and every other
\* position, qualifying or not, stays registered unchanged.
C19_OneExitPerCall ==
    [][IsSome(call_time') =>
          LET due == {id \in DOMAIN active_positions :
                        AnyTrigger(active_positions[id], current_price', Unwrap(call_time'))}
          IN /\ due # {} => IsExit(signal')
             /\ IsExit(signal') =>
                  /\ Unwrap(signal').position_id \in due
                  /\ DOMAIN active_positions'
                       = DOMAIN active_positions \ {Unwrap(signal').position_id}
                  /\ \A id \in DOMAIN active_positions' :
                        active_positions'[id] = active_positions[id]
             /\ ~IsExit(signal') => DOMAIN active_positions \subseteq DOMAIN active_positions'
             /\ Cardinality(DOMAIN active_positions \ DOMAIN active_positions') <= 1]_vars

\* an Exit was returned for one position and the position left in the
\* registry satisfied a trigger in that same call
C19_Witness ==
    /\ IsExit(signal)
    /\ Cardinality(DOMAIN active_positions) = 1
    /\ \A id \in DOMAIN active_positions :
          AnyTrigger(active_positions[id], current_price, Unwrap(call_time))

----------------------------------------------------------------------------
(* Claims about the equity curve (specification SpecRun) *)

\* C20: for every snapshot, with or without a chain, the loop records under
\* the snapshot's timestamp the capital as it is before the snapshot's signal
\* is applied; a later snapshot with the same timestamp replaces the entry, so
\* the curve has one entry per distinct snapshot timestamp, also after the run.
C20_EquityCurve ==
    [][/\ SnapshotStep =>
            LET e == events'[Len(events')]
            IN /\ DOMAIN equity_curve' = DOMAIN equity_curve \cup {e.timestamp}
               /\ equity_curve'[e.timestamp] = current_capital
               /\ \A t \in DOMAIN equity_curve \ {e.timestamp} :
                     equity_curve'[t] = equity_curve[t]
               /\ DOMAIN equity_curve' = {events'[i].timestamp : i \in 1..Len(events')}
       /\ (pc = "running" /\ pc' = "done") => equity_curve' = equity_curve]_vars

\* two snapshots with one timestamp, the second without a chain: the single
\* entry holds the capital after the first snapshot's Enter
C20_Witness ==
    /\ Len(events) = 2
    /\ events[1].timestamp = events[2].timestamp
    /\ DOMAIN events[2].options_chains = {}
    /\ DOMAIN equity_curve = {events[2].timestamp}
    /\ equity_curve[events[2].timestamp] = current_capital
    /\ current_capital # bt_config.initial_capital

\* this step consumed a snapshot that has no options chain
ChainlessStep == SnapshotStep /\ DOMAIN events'[Len(events')].options_chains = {}

\* C28: a snapshot with no options chain is skipped: the strategy is not
\* invoked, and the strategy state, the capital, the open-trade set and the
\* ledger are unchanged; only the equity-curve entry for the snapshot's
\* timestamp is written.
C28_ChainlessSnapshotSkipped ==
    [][ChainlessStep =>
          /\ call_time' = None /\ signal' = None
          /\ <<config, active_positions, current_price, last_signal, next_id>>'
                = <<config, active_positions, current_price, last_signal, next_id>>
          /\ <<current_capital, active_trades, trades>>'
                = <<current_capital, active_trades, trades>>
          /\ equity_curve'[events'[Len(events')].timestamp] = current_capital
          /\ \A t \in DOMAIN equity_curve' \ {events'[Len(events')].timestamp} :
                t \in DOMAIN equity_curve /\ equity_curve'[t] = equity_curve[t]]_vars

\* a snapshot without chains arrived a day and a half after an Enter: the
\* position, the open trade and the price of the earlier call are still there
C28_Witness ==
    /\ Len(events) = 2
    /\ DOMAIN events[2].options_chains = {}
    /\ events[1].timestamp < events[2].timestamp
    /\ call_time = None
    /\ DOMAIN active_positions = {1} /\ DOMAIN active_trades = {1}
    /\ current_price = events[1].underlying_price
    /\ DOMAIN equity_curve = {events[1].timestamp, events[2].timestamp}

----------------------------------------------------------------------------
(* The execution loop handed a strategy that already holds a position
   (specification SpecPreloaded) *)

\* BacktestRunner::new with a strategy whose registry holds position 1, built
\* at 0h on a chain a day and a half or thirty days from expiration
InitPreloaded ==
    /\ config \in Configs
    /\ \E p \in RegistryPositions(1, {420, 430}, {370, 380}) :
          active_positions = Insert(<<>>, 1, p)
    /\ current_price = 400
    /\ last_signal = Some(0)
    /\ next_id = 2
    /\ signal = None
    /\ call_time = None
    /\ buildable = FALSE
    /\ probe = None
    /\ pc = "running"
    /\ bt_config = [initial_capital |-> 1000 * Unit, commission_per_contract |-> 6500,
                    days_in_backtest |-> 365]
    /\ events = <<>>
    /\ stream = <<>>
    /\ current_capital = bt_config.initial_capital
    /\ active_trades = <<>>
    /\ trades = <<>>
    /\ equity_curve = <<>>
    /\ MetricsIdle

SpecPreloaded == InitPreloaded /\ [][NextRun]_vars

\* this step got an Exit signal for a position the loop holds no trade for
UnknownExit ==
    /\ SnapshotStep /\ IsExit(signal')
    /\ Unwrap(signal').position_id \notin DOMAIN active_trades

\* C29: an Exit signal whose position id is not in the open-trade set is
\* dropped: the capital, the open-trade set and the ledger are unchanged, the
\* run goes on, and the position never shows up in the ledger.
C29_UnknownExitDropped ==
    [][/\ UnknownExit =>
            /\ current_capital' = current_capital
            /\ active_trades' = active_trades
            /\ trades' = trades
            /\ pc' = "running"
       /\ \A i \in 1..Len(trades') : trades'[i].id # 1]_vars

\* the Exit of the preloaded position was dropped, the next snapshot entered
\* position 2 and a third closed it: the ledger holds that trade alone
C29_Witness ==
    /\ Len(events) = 3
    /\ DOMAIN active_positions = {}
    /\ next_id = 3
    /\ Len(trades) = 1 /\ trades[1].id = 2
    /\ IsExit(signal)

----------------------------------------------------------------------------
(* Runs long enough to close two trades (specification SpecLedger) *)

\* snapshots with one chain thirty days from expiration: at 0h, 1.5d and 8d
\* with the underlying at 400, and at 1.5d after a rally to 440
LedgerEvents ==
    {MarketEvent(t, 400, [k \in {KeyFar} |-> RunChain(400, "synthetic", t + 60, t)]) :
        t \in RunTimes}
      \cup {MarketEvent(3, 440, [k \in {KeyFar} |-> RunChain(440, "synthetic", 63, 3)])}

ProcessLedgerEvent ==
    /\ pc = "running"
    /\ Len(events) < MaxLedgerEvents
    /\ \E event \in LedgerEvents : Consume(event)
    /\ UNCHANGED <<pc, bt_config, stream, metrics_vars>>

NextLedger == ProcessLedgerEvent \/ Finish

SpecLedger == InitRun /\ [][NextLedger]_vars

\* q is the sequence p followed by n more elements
Extends(q, p, n) == Len(q) = Len(p) + n /\ SubSeq(q, 1, Len(p)) = p

\* C30: the ledger grows in arrival order: a processed Exit puts its trade
\* right after the trades closed before it and nothing else changes the ledger
\* during the loop; at the end of the stream the trades still open go after
\* every closed trade; the metrics are folded over the ledger in that order.
C30_LedgerInArrivalOrder ==
    [][/\ pc' = "running" =>
            IF IsExit(signal') /\ Unwrap(signal').position_id \in DOMAIN active_trades
            THEN /\ Extends(trades', trades, 1)
                 /\ trades'[Len(trades')].id = Unwrap(signal').position_id
            ELSE trades' = trades
       /\ (pc = "running" /\ pc' = "done") =>
            /\ Extends(trades', trades, Cardinality(DOMAIN active_trades))
            /\ {trades'[i].id : i \in (Len(trades) + 1)..Len(trades')} = DOMAIN active_trades
            /\ metrics' = calculate(NewMetrics(bt_config.initial_capital), current_capital,
                                    trades', bt_config.days_in_backtest)]_vars

\* a finished run that closed trade 1, entered trade 2 and hit the end of the
\* stream: the ledger holds trade 1 and then the still registered trade 2
C30_Witness ==
    /\ RunOver
    /\ Len(trades) = 2
    /\ trades[1].id = 1 /\ trades[1].exit_time >= 3
    /\ trades[2].id = 2 /\ 2 \in DOMAIN active_positions
    /\ metrics.total_trades = 2

----------------------------------------------------------------------------
(* The execution loop on a stream fixed in advance (specification SpecStream) *)

\* a generator that reports the end of the stream one snapshot early
next_event_one_short(s, current_idx) ==
    IF current_idx + 1 >= Len(s) THEN None ELSE Some(s[current_idx + 1])

\* HistoricalMarketGenerator::next_event, current_idx counting from 0
next_event(s, current_idx) ==
    IF current_idx >= Len(s) THEN None ELSE Some(s[current_idx + 1])

\* a chain without calls
NoCallsChain == MakeChain(400, {}, {370, 380}, "synthetic", 63, 3)

\* snapshots of the streams: none with a chain, a chain that yields a condor
\* (at 0h and at 1.5d), a chain whose premium is zero, a chain after a rally,
\* a chain without calls
StreamEvents ==
    {MarketEvent(0, 400, <<>>),
     MarketEvent(0, 400, [k \in {KeyFar} |-> RunChain(400, "synthetic", 60, 0)]),
     MarketEvent(3, 400, [k \in {KeyFar} |-> RunChain(400, "synthetic", 63, 3)]),
     MarketEvent(3, 400, [k \in {KeyFar} |-> RunChain(400, "flat", 63, 3)]),
     MarketEvent(3, 440, [k \in {KeyFar} |-> RunChain(440, "synthetic", 63, 3)]),
     MarketEvent(3, 400, [k \in {KeyFar} |-> NoCallsChain])}
Streams == SeqsUpTo(StreamEvents, MaxEvents)

InitStream ==
    /\ FreshStrategy
    /\ pc = "running"
    /\ bt_config = [initial_capital |-> 1000 * Unit, commission_per_contract |-> 6500,
                    days_in_backtest |-> 365]
    /\ events = <<>>
    /\ stream \in Streams
    /\ current_capital = bt_config.initial_capital
    /\ active_trades = <<>>
    /\ trades = <<>>
    /\ equity_curve = <<>>
    /\ metrics = <<>>
    /\ calc_calls = 0

\* while let Some(event) = next_event().await: the loop body on that event
StreamEvent ==
    /\ pc = "running"
    /\ IsSome(next_event(stream, Len(events)))
    /\ Consume(Unwrap(next_event(stream, Len(events))))
    /\ UNCHANGED <<pc, bt_config, stream, metrics_vars>>

\* next_event() returned None: the loop is left and the run finishes
StreamEnd ==
    /\ next_event(stream, Len(events)) = None
    /\ Finish

NextStream == StreamEvent \/ StreamEnd

\* the `while let Some(..)` loop is left once next_event() returns None
LeaveLoop ==
    /\ pc = "running"
    /\ next_event(stream, Len(events)) = None
    /\ pc' = "done"

\* the loop takes the snapshot next_event() returns
TakeEvent ==
    /\ pc = "running"
    /\ IsSome(next_event(stream, Len(events)))
    /\ events' = Append(events, Unwrap(next_event(stream, Len(events))))

\* the loop is sequential code that keeps running: a snapshot that is there is
\* taken, and a loop that can be left is left
SpecStream ==
    InitStream /\ [][NextStream]_vars /\ WF_events(TakeEvent) /\ WF_pc(LeaveLoop)

\* C21: the run consumes the snapshots of the stream one by one in arrival
\* order and terminates having consumed each exactly once, whatever mix of
\* missing chains, failed or rejected entries and signals occurs.
C21_RunConsumesStream ==
    /\ [](Len(events) <= Len(stream) /\ events = SubSeq(stream, 1, Len(events)))
    /\ [][Len(events') <= Len(events) + 1]_vars
    /\ <>(pc = "done" /\ events = stream)

\* a finished run over three snapshots: one without a chain, one whose entry
\* was rejected, and a trade in the ledger
C21_Witness ==
    /\ pc = "done"
    /\ events = stream
    /\ Len(stream) = 3
    /\ \E i \in 1..3 : DOMAIN stream[i].options_chains = {}
    /\ \E i \in 1..3 : stream[i] = MarketEvent(3, 400, [k \in {KeyFar} |-> RunChain(400, "flat", 63, 3)])
    /\ Len(trades) = 1

\* the chain handed to the strategy in this step
StepChain == Unwrap(nearest_chain(events'[Len(events')]))
\* this step called the strategy with the entry gate open and got no Enter
FailedEntry ==
    /\ SnapshotStep /\ IsSome(call_time')
    /\ should_enter(config, active_positions, last_signal, StepChain.timestamp)
    /\ ~IsEnter(signal')

\* C27: a failed entry attempt (short strike unresolved, leg missing, entry
\* premium <= 0) emits no signal and leaves the registry, the last-signal
\* timestamp, the capital, the open-trade set and the ledger unchanged, so
\* that the entry gate is as open after the snapshot as before it.
C27_FailedEntryLeavesNoTrace ==
    [][FailedEntry =>
          /\ None \in create_iron_condor_position(StepChain, next_id)
          /\ signal' = None
          /\ active_positions' = active_positions
          /\ last_signal' = last_signal
          /\ next_id' = next_id
          /\ current_capital' = current_capital
          /\ active_trades' = active_trades
          /\ trades' = trades
          /\ should_enter(config, active_positions', last_signal', StepChain.timestamp)]_vars

\* three snapshots: no calls (short call unresolved), then a zero premium,
\* then a chain that yields a condor, which is entered
C27_Witness ==
    /\ Len(events) = 3
    /\ nearest_chain(events[1]) = Some(NoCallsChain)
    /\ nearest_chain(events[2]) = Some(RunChain(400, "flat", 63, 3))
    /\ IsEnter(signal)
    /\ DOMAIN active_trades = {1}
    /\ last_signal = Some(3)

----------------------------------------------------------------------------
(* The execution loop on vendor chains, whose strikes need not be whole
   dollars (specification SpecVendor) *)

\* convert_alpha_vantage_option: a contract with strike q[1] dollars and q[2]
\* 1e-4 dollars; its bid and ask are read from the response, here the quotes
\* of the synthetic contract at q[1]
VendorContract(option_type, q, expiration, underlying_price, current_time) ==
    LET s == SyntheticContract(option_type, q[1], expiration, underlying_price, current_time)
    IN [f \in DOMAIN s \cup {"strike_frac"} |-> IF f = "strike_frac" THEN q[2] ELSE s[f]]

\* convert_to_enhanced_market_event: each contract is stored under the key
\* `strike as u32`; the strike sets below have one contract per key
VendorChain(underlying_price, call_strikes, put_strikes, expiration, timestamp) ==
    [underlying_price |-> underlying_price,
     expiration |-> expiration,
     calls |-> [k \in {q[1] : q \in call_strikes} |->
                  VendorContract("Call", CHOOSE q \in call_strikes : q[1] = k,
                                 expiration, underlying_price, timestamp)],
     puts |-> [k \in {q[1] : q \in put_strikes} |->
                 VendorContract("Put", CHOOSE q \in put_strikes : q[1] = k,
                                expiration, underlying_price, timestamp)],
     timestamp |-> timestamp]

\* <<underlying price, call strikes, put strikes>>: whole-dollar strikes;
\* calls 420 and 440.50 with puts 379.50 and 380; calls 420.90, 425 and
\* 436.50; a price above every call strike; no calls; no puts
VendorShapes ==
    {<<400, {<<420, 0>>, <<430, 0>>}, {<<370, 0>>, <<380, 0>>}>>,
     <<405, {<<420, 0>>, <<440, 5000>>}, {<<379, 5000>>, <<380, 0>>}>>,
     <<400, {<<420, 9000>>, <<425, 0>>, <<436, 5000>>}, {<<370, 0>>, <<380, 0>>}>>,
     <<440, {<<420, 0>>, <<430, 0>>}, {<<370, 0>>, <<380, 0>>}>>,
     <<400, {}, {<<370, 0>>, <<380, 0>>}>>,
     <<400, {<<420, 0>>, <<430, 0>>}, {}>>}

\* snapshot timestamps: 0h and 1.5d
VendorTimes == {0, 3}
\* the response's quotes are parsed one by one: a chain may come with every
\* bid above its ask
VendorEvents ==
    {MarketEvent(t, shape[1],
                 [k \in {KeyFar} |-> VendorChain(shape[1], shape[2], shape[3], t + 60, t)]) :
        shape \in VendorShapes, t \in VendorTimes}
      \cup {MarketEvent(t, 400, [k \in {KeyFar} |-> RunChain(400, "crossed", t + 60, t)]) :
               t \in VendorTimes}

ProcessVendorEvent ==
    /\ pc = "running"
    /\ Len(events) < MaxEvents
    /\ \E event \in VendorEvents : Consume(event)
    /\ UNCHANGED <<pc, bt_config, stream, metrics_vars>>

NextVendor == ProcessVendorEvent \/ Finish

SpecVendor == InitRun /\ [][NextVendor]_vars

\* contract x of `side` is, by its strike, nearest to target (1e-4 dollars)
\* among the contracts of the side
NearestByStrike(side, x, target) ==
    /\ \E k \in DOMAIN side : side[k] = x
    /\ \A k \in DOMAIN side :
          Abs(StrikeOf(x) - target) <= Abs(StrikeOf(side[k]) - target)

\* C31: in every position the strategy constructs, the long call is the
\* available call strike nearest to the short-call strike + 10, the long put
\* is the available put strike nearest to the short-put strike - 10, and the
\* call spread and the put spread are each at most 20 wide.
C31_ProtectionLegs ==
    [][(SnapshotStep /\ IsEnter(signal')) =>
          LET p == Unwrap(signal').position
          IN /\ NearestByStrike(StepChain.calls, p.long_call,
                                 StrikeOf(p.short_call) + protection_width * Unit)
             /\ NearestByStrike(StepChain.puts, p.long_put,
                                 StrikeOf(p.short_put) - protection_width * Unit)
             /\ call_spread_width(p) <= 20 * Unit
             /\ put_spread_width(p) <= 20 * Unit]_vars

----------------------------------------------------------------------------
(* The registry of a strategy that starts fresh (specification SpecRun) *)

\* C32: from a fresh strategy, after any sequence of calls (zero-DTE or
\* regular mode) the registry holds at most one position; so the loop's
\* open-trade set holds at most one trade, and the end of the stream moves at
\* most one open trade to the ledger.
C32_AtMostOneOpen ==
    [][/\ Cardinality(DOMAIN active_positions') <= 1
       /\ Cardinality(DOMAIN active_trades') <= 1
       /\ (pc = "running" /\ pc' = "done") => Len(trades') <= Len(trades) + 1]_vars

\* a run of three snapshots that closed one trade, entered a second one and
\* left it open at the end of the stream
C32_Witness ==
    /\ pc = "done"
    /\ Len(events) = MaxEvents
    /\ DOMAIN active_positions = {2}
    /\ Len(trades) = 2
    /\ trades[1].exit_time > trades[1].entry_time
    /\ trades[2].id = 2
    /\ trades[2].exit_time = trades[2].entry_time

----------------------------------------------------------------------------
(* Capital over a round trip (specification SpecRun) *)

\* what the Enter signal of trade t added to capital: E - 4cq
EnterChange(t) == t.entry_price - bt_config.commission_per_contract * t.quantity * 4
\* what the Enter and the Exit signal of trade t added together: 2E - X - 8cq
RoundTripChange(t) ==
    2 * t.entry_price - t.exit_price - 8 * bt_config.commission_per_contract * t.quantity
\* the ledger entries whose position the strategy has exited
ExitedInLedger == {i \in 1..Len(trades) : trades[i].id \notin DOMAIN active_positions}
RECURSIVE SumOfChanges(_)
SumOfChanges(S) ==
    IF S = {} THEN 0
    ELSE LET t == CHOOSE x \in S : TRUE IN t[2] + SumOfChanges(S \ {t})

\* C33: a position entered with premium E and exited with exit premium X, with
\* quantity q and commission per contract c, changes capital by 2E - X - 8cq
\* over its Enter and Exit; capital is the initial capital plus these changes
\* (E - 4cq for a position entered and not exited) and nothing else.
C33_RoundTripCapital ==
    current_capital
        = bt_config.initial_capital
            + SumOfChanges({<<trades[i].id, RoundTripChange(trades[i])>> : i \in ExitedInLedger})
            + SumOfChanges({<<trades[i].id, EnterChange(trades[i])>> :
                              i \in (1..Len(trades)) \ ExitedInLedger})
            + SumOfChanges({<<id, EnterChange(active_trades[id])>> : id \in DOMAIN active_trades})

\* the stream is over with a round trip bought back at a positive exit
\* premium different from the entry premium, and a second position left open
C33_Witness ==
    /\ pc = "done"
    /\ Len(trades) = 2
    /\ ExitedInLedger = {1}
    /\ trades[1].exit_price > 0
    /\ trades[1].exit_price # trades[1].entry_price
    /\ bt_config.commission_per_contract > 0

----------------------------------------------------------------------------
(* Exit price against entry price (specification SpecVendor) *)

\* the contracts of every chain of every snapshot processed so far
ContractsSeen ==
    UNION {UNION {{events[i].options_chains[k].calls[s] :
                      s \in DOMAIN events[i].options_chains[k].calls}
                    \cup {events[i].options_chains[k].puts[s] :
                             s \in DOMAIN events[i].options_chains[k].puts} :
                  k \in DOMAIN events[i].options_chains} :
           i \in 1..Len(events)}
NoCrossedQuote == \A contract \in ContractsSeen : contract.ask >= contract.bid

\* C34: if every contract in every chain has ask >= bid, every closed trade in
\* the ledger has exit price >= entry price: the loop's realized P&L, entry
\* price - exit price, is <= 0 and the metrics engine's profit for the same
\* trade, (exit price - entry price) * quantity * 100, is >= 0.
C34_ClosedTradesExitAboveEntry ==
    NoCrossedQuote =>
        \A i \in ExitedInLedger :
           /\ trades[i].exit_price >= trades[i].entry_price
           /\ trades[i].entry_price - trades[i].exit_price <= 0
           /\ trade_profit(trades[i]) >= 0

\* the stream is over, no quote was crossed, and the ledger holds a closed
\* trade that cost the loop money and that the metrics count as a winner
C34_Witness ==
    /\ pc = "done"
    /\ NoCrossedQuote
    /\ ExitedInLedger # {}
    /\ \E i \in ExitedInLedger :
          /\ trades[i].entry_price - trades[i].exit_price < 0
          /\ trade_profit(trades[i]) > 0
    /\ metrics.winning_trades >= 1
    /\ current_capital < bt_config.initial_capital

----------------------------------------------------------------------------
(* The profit target right after an entry (specification SpecTarget) *)

\* profit targets of 0.5, 1.0 and 1.5
TargetConfigs ==
    [zero_dte : BOOLEAN, profit_target_pct : {50, 100, 150}, stop_loss_pct : {75},
     exit_dte : {0}]

\* chains at 400, 421 and 440 with puts 370/380 or puts 410/420 (every put
\* strike above 400), expiring a day and a half or thirty days out
TargetChains ==
    {MakeChain(price, {420, 430}, puts, "synthetic", t + off, t) :
        price \in Prices, puts \in {{370, 380}, {410, 420}}, off \in {3, 60}, t \in Times}

InitTarget ==
    /\ config \in TargetConfigs
    /\ active_positions = <<>>
    /\ current_price = 0
    /\ last_signal = None
    /\ next_id = 1
    /\ signal = None
    /\ call_time = None
    /\ buildable = FALSE
    /\ probe = None
    /\ RunnerIdle
    /\ MetricsIdle

CallTarget ==
    \E c \in TargetChains :
        \E o \in generate_signal_with_options_chain(config, active_positions, last_signal, next_id, c) :
            /\ StrategyCall(c, o)
            /\ UNCHANGED <<runner_vars, metrics_vars>>

NextTarget == CallTarget

SpecTarget == InitTarget /\ [][NextTarget]_vars

\* the price lies between the short-put and the short-call strike, inclusive
InShortStrikes(p, price) ==
    StrikeOf(p.short_put) <= price * Unit /\ price * Unit <= StrikeOf(p.short_call)
\* the last call entered position p on chain c
JustEnteredOn(p, c) ==
    /\ IsEnter(signal)
    /\ Unwrap(signal).position = p
    /\ Unwrap(signal).timestamp = c.timestamp
    /\ Some(p) \in create_iron_condor_position(c, p.id)
\* outcome o exits position id for the profit target
ExitsForProfit(o, id) ==
    /\ IsExit(o.signal)
    /\ Unwrap(o.signal).position_id = id
    /\ Unwrap(o.signal).reason = "profit target"
    /\ id \notin DOMAIN o.active_positions

----------------------------------------------------------------------------
(* Holding time (specification Spec) *)

\* C36: if a position entered at chain timestamp L is still registered when a
\* call arrives with chain timestamp t > L + 1 day, that call emits an Exit
\* for it: no position entered through the strategy survives an evaluation
\* made more than one day after its entry.
C36_BoundedHoldingTime ==
    \A c \in Chains : \A id \in DOMAIN active_positions :
        c.timestamp > active_positions[id].entry_time + Days(1)
        => \A o \in generate_signal_with_options_chain(
                        config, active_positions, last_signal, next_id, c) :
               /\ IsExit(o.signal)
               /\ Unwrap(o.signal).position_id = id
               /\ id \notin DOMAIN o.active_positions

\* a position was exited, more than a day after the entry, by the time
\* trigger alone
C36_Witness ==
    /\ IsExit(signal)
    /\ Unwrap(signal).reason = "time exit"
    /\ IsSome(last_signal)
    /\ Unwrap(call_time) > Unwrap(last_signal) + Days(1)
    /\ active_positions = <<>>

----------------------------------------------------------------------------
(* The last-signal timestamp (specification SpecRun) *)

\* the trades the loop has recorded, open or in the ledger
RecordedTrades ==
    {active_trades[id] : id \in DOMAIN active_trades} \cup {trades[i] : i \in 1..Len(trades)}
\* last_signal is the entry time of the most recent entry, if there was one
MeasuredFromLastEntry ==
    IF next_id = 1 THEN last_signal = None
    ELSE \E t \in RecordedTrades : t.id = next_id - 1 /\ last_signal = Some(t.entry_time)

\* C37: the last-signal timestamp is written only when an Enter signal is
\* emitted; a call that emits an Exit or no signal leaves it unchanged, so the
\* entry gate and the time exit are measured from the most recent entry.
C37_LastSignalOnlyOnEnter ==
    [][SnapshotStep =>
          /\ IF IsEnter(signal')
             THEN last_signal' = Some(Unwrap(signal').timestamp)
             ELSE last_signal' = last_signal
          /\ MeasuredFromLastEntry']_vars

\* an Exit was just processed later than the entry, and the last-signal
\* timestamp is still the entry's
C37_Witness ==
    /\ pc = "running"
    /\ IsExit(signal)
    /\ IsSome(last_signal)
    /\ Unwrap(signal).timestamp > Unwrap(last_signal)
    /\ Len(trades) = 1
    /\ last_signal = Some(trades[1].entry_time)

----------------------------------------------------------------------------
(* Open trades in the metrics (specification SpecRun) *)

\* the ledger entries of trades' that the end of the stream has just added
LeftOpen == (Len(trades) + 1)..Len(trades')
\* the closed entries of the ledger whose metrics profit is > 0
ClosedWinners == {i \in 1..Len(trades) : trades[i].exit_price > trades[i].entry_price}

\* C38: every trade left open at end of stream reaches the metrics engine
\* with exit price 0 and exit time equal to its entry time, so it is counted
\* as a losing trade with profit -entry price * quantity * 100 and zero
\* holding days.
C38_OpenTradesCountAsLosses ==
    [][(pc = "running" /\ pc' = "done") =>
          /\ \A i \in LeftOpen :
                /\ trades'[i].exit_price = 0
                /\ trades'[i].exit_time = trades'[i].entry_time
                /\ trade_profit(trades'[i])
                     = -(trades'[i].entry_price * trades'[i].quantity * 100)
                /\ trade_outcome(trade_profit(trades'[i])) = "loss"
                /\ holding_days(trades'[i]) = 0
          /\ metrics'.winning_trades = Cardinality(ClosedWinners)
          /\ metrics'.losing_trades
               = Cardinality((1..Len(trades)) \ ClosedWinners) + Cardinality(LeftOpen)]_vars

\* the stream ended with one closed winner and one trade left open, which is
\* the only loser of the metrics, at an average loss of its entry price * 100
C38_Witness ==
    /\ pc = "done"
    /\ Len(trades) = 2
    /\ trades[2].id \in DOMAIN active_positions
    /\ trades[2].exit_price = 0
    /\ metrics.winning_trades = 1
    /\ metrics.losing_trades = 1
    /\ metrics.avg_loss_per_loss = Frac(trades[2].entry_price * trades[2].quantity * 100, 1)

----------------------------------------------------------------------------
(* The four legs of an entry attempt (specification SpecVendor) *)

\* the strikes <<short call, long call, short put, long put>> an entry attempt
\* on chain c may look up, for a chain with calls and puts
AttemptLegs(c) ==
    LET tsc == target_short_call_strike(c.underlying_price)
        tsp == target_short_put_strike(c.underlying_price)
    IN UNION {UNION {
           {<<Unwrap(sc), lc, Unwrap(sp), lp>> :
               lc \in long_strikes(c, "Call", tsc, Unwrap(sc),
                                   Unwrap(sc) + protection_width, Unwrap(sc) + fallback_width),
               lp \in long_strikes(c, "Put", tsp, Unwrap(sp),
                                   Unwrap(sp) - protection_width, Unwrap(sp) - fallback_width)}
           : sp \in find_closest_strike(c, tsp, "Put")}
         : sc \in find_closest_strike(c, tsc, "Call")}
\* the entry premium of the position on these legs
LegsPremium(c, legs) ==
    EntryPremium(c.calls[legs[1]], c.calls[legs[2]], c.puts[legs[3]], c.puts[legs[4]], 1)
\* this step called the strategy with the entry gate open
EntryAttempt ==
    /\ SnapshotStep /\ IsSome(call_time')
    /\ should_enter(config, active_positions, last_signal, StepChain.timestamp)

\* C39: when the chain has a call strike and a put strike, all four legs of
\* an entry attempt resolve to contracts of the chain and the short strike
\* +/- 5 fallback is not taken; the attempt fails only if a side of the chain
\* is empty or the entry premium is not strictly positive.
C39_LegsAlwaysResolve ==
    [][EntryAttempt =>
          LET c == StepChain
          IN IF DOMAIN c.calls = {} \/ DOMAIN c.puts = {}
             THEN signal' = None
             ELSE /\ \A legs \in AttemptLegs(c) :
                        /\ IsSome(get_call(c, legs[1])) /\ IsSome(get_call(c, legs[2]))
                        /\ IsSome(get_put(c, legs[3])) /\ IsSome(get_put(c, legs[4]))
                        /\ None \notin find_closest_strike(c, legs[1] + protection_width, "Call")
                        /\ None \notin find_closest_strike(c, legs[3] - protection_width, "Put")
                  /\ ~IsEnter(signal') =>
                        \E legs \in AttemptLegs(c) : LegsPremium(c, legs) <= 0
                  /\ IsEnter(signal') =>
                        \E legs \in AttemptLegs(c) :
                           /\ LegsPremium(c, legs) > 0
                           /\ Unwrap(signal').position.short_call = c.calls[legs[1]]
                           /\ Unwrap(signal').position.long_call = c.calls[legs[2]]
                           /\ Unwrap(signal').position.short_put = c.puts[legs[3]]
                           /\ Unwrap(signal').position.long_put = c.puts[legs[4]]]_vars

\* an attempt on a chain with calls and puts has failed for its premium, the
\* long call it resolved being the short call's own contract, and a later
\* attempt on a chain whose long-call target 430 is not a strike was entered
C39_Witness ==
    /\ Len(events) = 2
    /\ events[1].underlying_price = 440
    /\ IsEnter(signal)
    /\ Unwrap(signal).position.id = 1
    /\ Unwrap(signal).position.long_call.strike = 425

====
